---- MODULE Spec2Model ----
(***************************************************************************)
(* State-machine model of the video playback control surface,              *)
(* src/src/components/VideoPlayerModal.tsx: the overlay timers, the media  *)
(* element's play / pause events, the adaptive engine (hls.js) life cycle  *)
(* and its error handler, and the React effect cleanups that run when the  *)
(* content descriptor changes or the player unmounts.                      *)
(*                                                                         *)
(* A handler runs to completion (single-threaded event loop), so each      *)
(* handler is one action.  The component state lives in the variables;     *)
(* handlers are written as operators on the record View of all variables,  *)
(* so that a handler calling helpers (togglePlay calls triggerFlash, then  *)
(* showControlsTemporarily, then showCursorTransient) is their composition.*)
(* Time is counted in ticks of TickMs milliseconds; a window.setTimeout of *)
(* d ms is a pending timer that becomes due after Ticks(d) ticks.          *)
(***************************************************************************)
EXTENDS Integers, Sequences, FiniteSets, TLC

\* ------------------------------------------------------------ bounds
\* Resolution of the clock: one Tick is TickMs milliseconds.
TickMs == 1000
\* Most timers of one untracked kind (language HUD, soft notice) pending at once.
MaxStack == 2
\* Most media events queued by the element and not yet dispatched.
MaxEvq == 2
\* Most adaptive engine instances created in one run.
MaxEngines == 2
\* Content identifiers of the catalogue.
NumVideos == 2

\* Length of the finite media, in seconds.
MaxTime == 12
\* Quality entries of a descriptor (video.qualities).
NumQualities == 2

\* Audio renditions of a multi-audio stream.
NumAudio == 2

\* ------------------------------------------------------------ program constants
CONTROLS_HIDE_MS == 2200
OVERLAY_DURATION == 1600
RIPPLE_MS == 450
CURSOR_MS == 800
MOUSE_QUIET_MS == 2000
PAUSED_INFO_MS == 10000
SOFT_NOTICE_MS == 4000
MENU_FADE_MS == 200
TAP_THRESHOLD == 300

NULL == "null"

\* setTimeout(cb, ms): the number of whole ticks after which the timer is due.
Ticks(ms) == (ms + TickMs - 1) \div TickMs

\* The timeout handles the component keeps in refs, one per kind.
RefKinds == {"controls", "cursor", "flash", "vol", "ripple", "paused", "mouseMove"}
\* Timers scheduled with no handle kept.
FreeKinds == {"lang", "soft", "menu"}
TimerKinds == RefKinds \cup FreeKinds

Duration(kind) ==
  CASE kind = "controls"  -> CONTROLS_HIDE_MS
    [] kind = "cursor"    -> CURSOR_MS
    [] kind = "flash"     -> OVERLAY_DURATION
    [] kind = "vol"       -> OVERLAY_DURATION
    [] kind = "lang"      -> OVERLAY_DURATION
    [] kind = "ripple"    -> RIPPLE_MS
    [] kind = "paused"    -> PAUSED_INFO_MS
    [] kind = "mouseMove" -> MOUSE_QUIET_MS
    [] kind = "soft"      -> SOFT_NOTICE_MS
    [] kind = "menu"      -> MENU_FADE_MS

\* A timeout id is the pair (kind, slot): an id held in the ref of a kind was
\* returned by the setTimeout of that kind, so ids of different kinds never meet.
Slots == 1..(MaxStack + 1)

\* Content descriptors: the id and the suffix of videoUrl; thumbnailsVtt is
\* present on the descriptors with id 1.
Exts == {"m3u8", "mp4"}
Videos == [id : 1..NumVideos, ext : Exts]
ThumbnailsVttOf(v) == IF v.id = 1 THEN "vtt" ELSE NULL

\* The messages the ERROR handler and the playback listeners put in errorMessage.
MsgSoftNetwork == "Network issue - attempting to reconnect..."
MsgSoftMedia == "Playback hiccup - trying to recover..."
MsgSoftOther == "Encountered a recoverable error..."
MsgFatalNetwork == "Network error - retrying..."
MsgFatalMedia == "Playback error - attempting media recovery..."
MsgFatalOther == "Playback error. Please reload or try a different title."
MsgElement == "Playback error occurred"
\* cur.includes("attempting"): the messages that contain the word.
IncludesAttempting(msg) == msg \in {MsgSoftNetwork, MsgFatalMedia}

ErrorTypes == {"networkError", "mediaError", "otherError"}

\* selectedAudioTrack = "default"; also hls.audioTrack before any track is chosen.
DefaultTrack == -1
\* hls.audioTracks of the stream of a descriptor: the first has several audio
\* renditions, the others have one.
EngineAudioTracks(v) == IF v.id = 1 THEN 0..(NumAudio - 1) ELSE {0}
\* video.audioTracks of a descriptor, by index.
MetaAudioTracks(v) == 0..(NumAudio - 1)
\* mergedTracks of the MANIFEST_PARSED handler, by id.
MergedTracks(v) ==
  IF Cardinality(EngineAudioTracks(v)) > 1 THEN EngineAudioTracks(v) ELSE MetaAudioTracks(v)

\* v.duration is NaN until the metadata has loaded and Infinity for a live stream.
NaNDur == -1
InfDur == -2
\* v.duration && isFinite(v.duration)
DurationKnown(d) == d # NaNDur /\ d # InfDur /\ d # 0
\* The duration of the media of a content id: the first is finite, the second is
\* a live stream, the others are finite and shorter.
MediaDuration(id) ==
  IF id = 1 THEN MaxTime ELSE IF id = 2 THEN InfDur ELSE MaxTime \div 2
\* No assignment to v.currentTime has been made.
NoSeek == [made |-> FALSE, pos |-> 0, dur |-> NaNDur]
\* video.qualities: quality idx has the URL idx + 1; urls of a content id are its own.
QualityIndexes == 0..(NumQualities - 1)
QualityUrl(idx) == idx + 1

\* ------------------------------------------------------------ subtitles and preferences
\* video.subtitleTracks, each rendered as a <track srcLang label> of the element:
\* the first content has two languages, the others carry two English tracks.
SubtitleTracks(v) ==
  IF v.id = 1
    THEN <<[lang |-> "en", label |-> "English"], [lang |-> "es", label |-> "Spanish"]>>
    ELSE <<[lang |-> "en", label |-> "English"], [lang |-> "en", label |-> "English SDH"]>>
\* v.textTracks before any switch: <track default={idx === 0}> shows the first.
InitialModes(v) ==
  [i \in 1..Len(SubtitleTracks(v)) |-> IF i = 1 THEN "showing" ELSE "disabled"]
\* track.language || track.label || ""
TrackLang(t) == IF t.lang # "" THEN t.lang ELSE t.label

\* Volumes are counted in percent and playback rates in hundredths.
\* A stored number field that is absent, or not a number.
NoNumber == -1
\* A stored activeSubtitle that is absent, or neither a string nor null.
NoChoice == "absent"
\* localStorage.getItem(settingsKey(video)) by what JSON.parse makes of it:
\* "missing" (null or ""), "corrupt" (not JSON), "null", "scalar" (a number, a
\* string or a boolean), "array", or "object" with the three fields.
MissingItem ==
  [kind |-> "missing", volume |-> NoNumber, playbackRate |-> NoNumber,
   activeSubtitle |-> NoChoice]
UnreadableKinds == {"corrupt", "null", "scalar", "array"}
Unreadable(kind) == [MissingItem EXCEPT !.kind = kind]
\* useState(1), useState(1), useState(false), useState(null)
DefaultClosure ==
  [volume |-> 100, playbackRate |-> 100, isMuted |-> FALSE, activeSubtitle |-> NULL]

VARIABLES
  mounted,        \* videoRef.current is the element (FALSE once unmounted)
  video,          \* the content descriptor prop
  thumbnailsVtt,  \* useState initialised from the first descriptor, never set again
  timers,         \* the browser's pending timeouts: [kind, slot, left]
  ref,            \* the timeout refs: kind -> slot of the id held, 0 for null
  sinceShown,     \* ticks since the overlay kind was last triggered (0 when hidden)
  flashType, showCursorPlay, ripple, showVolumeOverlay, volumeOverlayValue,
  langOverlay, showPausedInfo, dimVideo, showControls, controlsVisibleDueToMove,
  isPlaying, showResumeOverlay, showUpNextOverlay,
  elPaused,       \* v.paused
  elMuted,        \* v.muted
  elVolume,       \* v.volume, in percent
  isMuted,
  evq,            \* media events the element has queued for dispatch
  error, errorMessage, loading,
  hlsRef,         \* hlsRef.current: an engine id, 0 for null
  engines,        \* engine id -> [status, destroyCalls, calls, lastCmd, late]
  loadListeners,  \* the load effect registered loadedmetadata/loadstart/canplay/error
  fetchState,     \* the cue-file fetch of the VTT effect
  elSrc,  \* v.src: 0 for the descriptor's videoUrl (or the engine's media source), j for the URL of quality j
  elReady,  \* v.readyState > HAVE_NOTHING: the metadata of the current source has loaded
  elTime,  \* the element's playback position, in seconds
  elStartPos,  \* the element's default playback start position
  elDuration,  \* v.duration
  duration,  \* the duration state
  selectedQualityIndex,  \* the selectedQualityIndex state
  seekLog,  \* the last assignment to v.currentTime: the value and v.duration at that moment
  selectedAudioTrack,  \* the selectedAudioTrack state
  audioTracks,  \* ids of the audioTracks state after its Auto / Default entry
  audioSignals,  \* AUDIO_TRACK_SWITCHED / AUDIO_TRACKS_UPDATED events the engine has not yet delivered
  volume,  \* the volume state, in percent
  playbackRate,  \* the playbackRate state, in hundredths
  elRate,  \* v.playbackRate, in hundredths
  activeSubtitle,  \* the activeSubtitle state: a language or NULL
  trackModes,  \* mode of each of v.textTracks
  storage,  \* localStorage: content id -> the item under settingsKey
  storageFails,  \* localStorage.getItem / setItem throw
  loadClosure,  \* the state values the load effect's listeners closed over
  uncaught,  \* a handler has let an exception escape
  tapAge,  \* ms since lastTapTime of the current render, capped at TAP_THRESHOLD
  sinceTap,  \* ms since the last tap that toggled, capped at TAP_THRESHOLD
  docListeners,  \* startDrag/endDrag pairs this instance has on document
  fetchFor,  \* id of the content the cue-file fetch was started for, 0 for none
  vttCues,  \* the vttCues state: id of the content whose cue file was parsed, 0 for []
  progressPercent,  \* the progressPercent state, rounded down
  tuOwed,  \* the element has queued a timeupdate it has not fired
  audioSentinel,  \* the audioTracks state begins with the Auto / Default entry
  openMenu,  \* the openMenu state: NULL, subs or settings
  isMenuFading,  \* the isMenuFading state
  emitted,  \* the analytics events the last handler passed to logAnalytics
  sinkThrows,  \* window.gtag is a function that throws
  teardown        \* the cleanups the last teardown ran, in order

vars == <<mounted, video, thumbnailsVtt, timers, ref, sinceShown, flashType,
          showCursorPlay, ripple, showVolumeOverlay, volumeOverlayValue, langOverlay,
          showPausedInfo, dimVideo, showControls, controlsVisibleDueToMove, isPlaying,
          showResumeOverlay, showUpNextOverlay, elPaused, elMuted, elVolume, isMuted, evq, error,
          errorMessage, loading, hlsRef, engines, loadListeners, fetchState,
          elSrc, elReady, elTime, elStartPos, elDuration, duration,
          selectedQualityIndex, seekLog, selectedAudioTrack, audioTracks, audioSignals,
          volume, playbackRate, elRate, activeSubtitle, trackModes, storage,
          storageFails, loadClosure, uncaught, tapAge, sinceTap,
          docListeners, fetchFor, vttCues, progressPercent, tuOwed,
          audioSentinel, openMenu, isMenuFading, emitted, sinkThrows,
          teardown>>

\* The whole state as one record, and its assignment to the next state.
View ==
  [mounted |-> mounted, video |-> video, thumbnailsVtt |-> thumbnailsVtt,
   timers |-> timers, ref |-> ref, sinceShown |-> sinceShown, flashType |-> flashType,
   showCursorPlay |-> showCursorPlay, ripple |-> ripple,
   showVolumeOverlay |-> showVolumeOverlay, volumeOverlayValue |-> volumeOverlayValue,
   langOverlay |-> langOverlay, showPausedInfo |-> showPausedInfo, dimVideo |-> dimVideo,
   showControls |-> showControls, controlsVisibleDueToMove |-> controlsVisibleDueToMove,
   isPlaying |-> isPlaying, showResumeOverlay |-> showResumeOverlay,
   showUpNextOverlay |-> showUpNextOverlay, elPaused |-> elPaused, evq |-> evq,
   elMuted |-> elMuted, elVolume |-> elVolume, isMuted |-> isMuted,
   error |-> error, errorMessage |-> errorMessage, loading |-> loading,
   hlsRef |-> hlsRef, engines |-> engines, loadListeners |-> loadListeners,
   fetchState |-> fetchState, elSrc |-> elSrc, elReady |-> elReady,
   elTime |-> elTime, elStartPos |-> elStartPos, elDuration |-> elDuration,
   duration |-> duration, selectedQualityIndex |-> selectedQualityIndex,
   seekLog |-> seekLog, selectedAudioTrack |-> selectedAudioTrack, audioTracks |-> audioTracks, audioSignals |-> audioSignals,
   volume |-> volume, playbackRate |-> playbackRate, elRate |-> elRate,
   activeSubtitle |-> activeSubtitle, trackModes |-> trackModes, storage |-> storage,
   storageFails |-> storageFails, loadClosure |-> loadClosure, uncaught |-> uncaught,
   tapAge |-> tapAge, sinceTap |-> sinceTap, docListeners |-> docListeners,
   fetchFor |-> fetchFor, vttCues |-> vttCues,
   progressPercent |-> progressPercent, tuOwed |-> tuOwed,
   audioSentinel |-> audioSentinel, openMenu |-> openMenu,
   isMenuFading |-> isMenuFading, emitted |-> emitted, sinkThrows |-> sinkThrows,
   teardown |-> teardown]

\* The props and the React state of the component: a handler that changes any of
\* them causes a re-render, which runs the function body again.
Rendered(s) ==
  <<s.video, s.thumbnailsVtt, s.flashType, s.showCursorPlay, s.ripple,
    s.showVolumeOverlay, s.volumeOverlayValue, s.langOverlay, s.showPausedInfo,
    s.dimVideo, s.showControls, s.controlsVisibleDueToMove, s.isPlaying,
    s.showResumeOverlay, s.showUpNextOverlay, s.isMuted, s.error, s.errorMessage,
    s.loading, s.duration, s.selectedQualityIndex, s.selectedAudioTrack,
    s.audioTracks, s.volume, s.playbackRate, s.activeSubtitle, s.openMenu,
    s.isMenuFading>>

\* The next state is s; emitted keeps the events the step added.
\* "let lastTapTime = 0" is a local of the function body,
\* so a re-render leaves the new handleVideoClick with lastTapTime = 0.
Becomes(s) ==
  /\ mounted' = s.mounted /\ video' = s.video /\ thumbnailsVtt' = s.thumbnailsVtt
  /\ timers' = s.timers /\ ref' = s.ref /\ sinceShown' = s.sinceShown
  /\ flashType' = s.flashType /\ showCursorPlay' = s.showCursorPlay
  /\ ripple' = s.ripple /\ showVolumeOverlay' = s.showVolumeOverlay
  /\ volumeOverlayValue' = s.volumeOverlayValue /\ langOverlay' = s.langOverlay
  /\ showPausedInfo' = s.showPausedInfo /\ dimVideo' = s.dimVideo
  /\ showControls' = s.showControls
  /\ controlsVisibleDueToMove' = s.controlsVisibleDueToMove
  /\ isPlaying' = s.isPlaying /\ showResumeOverlay' = s.showResumeOverlay
  /\ showUpNextOverlay' = s.showUpNextOverlay /\ elPaused' = s.elPaused
  /\ elMuted' = s.elMuted /\ elVolume' = s.elVolume /\ isMuted' = s.isMuted
  /\ evq' = s.evq /\ error' = s.error /\ errorMessage' = s.errorMessage
  /\ loading' = s.loading /\ hlsRef' = s.hlsRef /\ engines' = s.engines
  /\ loadListeners' = s.loadListeners /\ fetchState' = s.fetchState
  /\ elSrc' = s.elSrc
  /\ elReady' = s.elReady
  /\ elTime' = s.elTime
  /\ elStartPos' = s.elStartPos
  /\ elDuration' = s.elDuration
  /\ duration' = s.duration
  /\ selectedQualityIndex' = s.selectedQualityIndex
  /\ seekLog' = s.seekLog
  /\ selectedAudioTrack' = s.selectedAudioTrack
  /\ audioTracks' = s.audioTracks
  /\ audioSignals' = s.audioSignals
  /\ volume' = s.volume
  /\ playbackRate' = s.playbackRate
  /\ elRate' = s.elRate
  /\ activeSubtitle' = s.activeSubtitle
  /\ trackModes' = s.trackModes
  /\ storage' = s.storage
  /\ storageFails' = s.storageFails
  /\ loadClosure' = s.loadClosure
  /\ uncaught' = s.uncaught
  /\ tapAge' = (IF Rendered(s) = Rendered(View) THEN s.tapAge ELSE TAP_THRESHOLD)
  /\ sinceTap' = s.sinceTap
  /\ docListeners' = s.docListeners
  /\ fetchFor' = s.fetchFor
  /\ vttCues' = s.vttCues
  /\ progressPercent' = s.progressPercent
  /\ tuOwed' = s.tuOwed
  /\ audioSentinel' = s.audioSentinel
  /\ openMenu' = s.openMenu
  /\ isMenuFading' = s.isMenuFading
  /\ emitted' = SubSeq(s.emitted, Len(emitted) + 1, Len(s.emitted))
  /\ sinkThrows' = s.sinkThrows
  /\ teardown' = s.teardown

\* ------------------------------------------------------------ timers
PendingOf(s, kind) == {t \in s.timers : t.kind = kind}

\* window.setTimeout returns an id that no pending timer has; the model takes the
\* first slot that neither a pending timer of the kind nor the kind's ref holds.
FreshSlot(s, kind) ==
  CHOOSE i \in Slots :
    /\ \A t \in PendingOf(s, kind) : t.slot # i
    /\ (kind \in RefKinds => s.ref[kind] # i)
    /\ \A j \in Slots :
         ((\A t \in PendingOf(s, kind) : t.slot # j) /\ (kind \in RefKinds => s.ref[kind] # j))
           => i <= j

\* window.clearTimeout(id): unknown and expired ids are ignored.
ClearTimeout(s, kind, slot) ==
  [s EXCEPT !.timers = {t \in s.timers : ~(t.kind = kind /\ t.slot = slot)}]

NewTimer(s, kind) ==
  [kind |-> kind, slot |-> FreshSlot(s, kind), left |-> Ticks(Duration(kind))]

\* ref.current = window.setTimeout(cb, Duration(kind))
SetTimeoutRef(s, kind) ==
  LET t == NewTimer(s, kind) IN
  [s EXCEPT !.timers = @ \cup {t}, !.ref[kind] = t.slot]

\* window.setTimeout(cb, Duration(kind)) with the returned id dropped
SetTimeoutFree(s, kind) ==
  [s EXCEPT !.timers = @ \cup {NewTimer(s, kind)}]

\* if (ref.current) { clearTimeout(ref.current); ref.current = null; }
ClearRefAndNull(s, kind) ==
  IF s.ref[kind] # 0
    THEN [ClearTimeout(s, kind, s.ref[kind]) EXCEPT !.ref[kind] = 0]
    ELSE s

\* if (ref.current) clearTimeout(ref.current);   (the ref keeps the stale id)
ClearRefOnly(s, kind) ==
  IF s.ref[kind] # 0 THEN ClearTimeout(s, kind, s.ref[kind]) ELSE s

Shown(s, kind) == [s EXCEPT !.sinceShown[kind] = 0]


\* ------------------------------------------------------------ overlay helpers
OverlayKinds == {"flash", "cursor", "ripple", "vol", "lang"}

\* triggerRipple(clientX, clientY)
triggerRipple(s) ==
  LET a == ClearRefOnly(s, "ripple")
      b == [a EXCEPT !.ripple = TRUE]
  IN  Shown(SetTimeoutRef(b, "ripple"), "ripple")

\* showLanguageOverlay(type, label): no handle is kept and none is cleared
showLanguageOverlay(s, label) ==
  LET a == [s EXCEPT !.langOverlay = label]
  IN  Shown(SetTimeoutFree(a, "lang"), "lang")

\* toggleMenu(m): setOpenMenu(prev => prev === m ? null : m)
toggleMenu(s, m) == [s EXCEPT !.openMenu = IF @ = m THEN NULL ELSE m]

\* closeMenu(delay = MENU_FADE_MS): no handle is kept and none is cleared
closeMenu(s) == SetTimeoutFree([s EXCEPT !.isMenuFading = TRUE], "menu")

\* logAnalytics(event, data): the event is handed to the sink (console, gtag).
logAnalytics(s, event) == [s EXCEPT !.emitted = Append(@, event)]

\* An exception leaves the handler: what it had done stays done.
Thrown(s) == [s EXCEPT !.uncaught = TRUE]

\* showControlsTemporarily(timeout = CONTROLS_HIDE_MS)
showControlsTemporarily(s) ==
  LET a == [s EXCEPT !.showControls = TRUE, !.controlsVisibleDueToMove = TRUE]
      b == ClearRefAndNull(a, "controls")
  IN  SetTimeoutRef(b, "controls")

\* Mutant: the callback hides the controls without looking at v.paused.
controlsTimeoutFired_AlwaysHides(s) ==
  IF ~s.mounted THEN s
  ELSE [s EXCEPT !.showControls = FALSE, !.controlsVisibleDueToMove = FALSE,
                 !.ref["controls"] = 0]

\* the callback showControlsTemporarily schedules
controlsTimeoutFired(s) ==
  IF ~s.mounted THEN s
  ELSE IF s.elPaused
    THEN [s EXCEPT !.showControls = TRUE, !.controlsVisibleDueToMove = FALSE]
    ELSE [s EXCEPT !.showControls = FALSE, !.controlsVisibleDueToMove = FALSE,
                   !.ref["controls"] = 0]

\* triggerFlash(type)
triggerFlash(s, type) ==
  LET a == [s EXCEPT !.flashType = type]
      b == ClearRefAndNull(a, "flash")
  IN  Shown(SetTimeoutRef(b, "flash"), "flash")

\* showVolOverlay(val), val given in percent (Math.round(val * 100))
showVolOverlay(s, pct) ==
  LET a == [s EXCEPT !.volumeOverlayValue = pct, !.showVolumeOverlay = TRUE]
      b == ClearRefAndNull(a, "vol")
  IN  Shown(SetTimeoutRef(b, "vol"), "vol")

\* showCursorTransient(clientX, clientY, duration = 800)
showCursorTransient(s) ==
  LET a == [s EXCEPT !.showCursorPlay = TRUE]
      b == ClearRefAndNull(a, "cursor")
  IN  Shown(SetTimeoutRef(b, "cursor"), "cursor")

\* v.play(): the element leaves the paused state and queues "play"; a rejected
\* promise (ok = FALSE) leaves it paused and runs the catch of togglePlay.
MediaPlay(s, ok) ==
  IF ~ok THEN [s EXCEPT !.error = "Failed to play video."]
  ELSE IF s.elPaused
    THEN [s EXCEPT !.elPaused = FALSE, !.evq = Append(@, "play")]
    ELSE s

\* v.pause(): the element enters the paused state and queues "pause".
MediaPause(s) ==
  IF s.elPaused THEN s ELSE [s EXCEPT !.elPaused = TRUE, !.evq = Append(@, "pause")]

\* togglePlay(clientX?, clientY?)
togglePlay(s, hasPos, playOk) ==
  IF ~s.mounted THEN s
  ELSE
    LET a == IF s.elPaused
               THEN triggerFlash(MediaPlay(s, playOk), "play")
               ELSE triggerFlash(MediaPause(s), "pause")
        b == showControlsTemporarily(a)
    IN  IF hasPos THEN showCursorTransient(b) ELSE b

\* handleMouseMove (onMouseMove of the dialog)
handleMouseMove(s) ==
  IF ~s.mounted THEN s
  ELSE
    LET a == showControlsTemporarily([s EXCEPT !.showControls = TRUE])
        b == IF a.showPausedInfo
               THEN [a EXCEPT !.showPausedInfo = FALSE, !.dimVideo = FALSE]
               ELSE a
        c == ClearRefAndNull(b, "mouseMove")
    IN  IF c.elPaused THEN SetTimeoutRef(c, "mouseMove") ELSE c

\* onPlay (the "play" listener of the playback effect)
onPlay(s) ==
  LET a == [s EXCEPT !.isPlaying = TRUE, !.showPausedInfo = FALSE, !.dimVideo = FALSE]
      b == ClearRefAndNull(ClearRefAndNull(a, "paused"), "mouseMove")
      c == logAnalytics(b, "video_play")
  IN  IF s.sinkThrows THEN Thrown(c) ELSE c

\* onPause: logAnalytics is called before the timers are handled
onPause(s) ==
  LET a == logAnalytics([s EXCEPT !.isPlaying = FALSE], "video_pause")
      b == ClearRefAndNull(a, "mouseMove")
  IN  IF s.sinkThrows THEN Thrown(a)
      ELSE IF b.ref["paused"] = 0 THEN SetTimeoutRef(b, "paused") ELSE b

\* onEnded; autoPlayNext is useState(true) and is never set
onEnded(s) ==
  LET a == [s EXCEPT !.isPlaying = FALSE, !.showResumeOverlay = TRUE,
                     !.showUpNextOverlay = TRUE]
      b == logAnalytics(a, "video_end")
  IN  IF s.sinkThrows THEN Thrown(b) ELSE b

\* The episodes state: useState([]), and setEpisodes is never called.
episodes == <<>>
\* The activeEpisodeIndex state: useState(0); its one setter is in the Play
\* button of the Up Next overlay.
activeEpisodeIndex == 0

\* The Up Next overlay is rendered.
UpNextRendered(s) ==
  s.showUpNextOverlay /\ Len(episodes) > 0 /\ activeEpisodeIndex < Len(episodes) - 1

\* className of controlsWrap: controlsVisible or controlsHidden
ControlsVisible(s) == s.showControls \/ ~s.isPlaying


\* ------------------------------------------------------------ timer callbacks
\* A state setter of an unmounted component changes nothing; a ref is still written.
cursorTimeoutFired(s) ==
  IF s.mounted
    THEN [s EXCEPT !.showCursorPlay = FALSE, !.sinceShown["cursor"] = 0, !.ref["cursor"] = 0]
    ELSE [s EXCEPT !.ref["cursor"] = 0]

flashTimeoutFired(s) ==
  IF s.mounted
    THEN [s EXCEPT !.flashType = NULL, !.sinceShown["flash"] = 0, !.ref["flash"] = 0]
    ELSE [s EXCEPT !.ref["flash"] = 0]

volOverlayTimeoutFired(s) ==
  IF s.mounted
    THEN [s EXCEPT !.showVolumeOverlay = FALSE, !.sinceShown["vol"] = 0, !.ref["vol"] = 0]
    ELSE [s EXCEPT !.ref["vol"] = 0]

rippleTimeoutFired(s) ==
  IF s.mounted THEN [s EXCEPT !.ripple = FALSE, !.sinceShown["ripple"] = 0] ELSE s

langTimeoutFired(s) ==
  IF s.mounted THEN [s EXCEPT !.langOverlay = NULL, !.sinceShown["lang"] = 0] ELSE s

pausedInfoTimeoutFired(s) ==
  IF s.mounted
    THEN [s EXCEPT !.showPausedInfo = TRUE, !.dimVideo = TRUE, !.ref["paused"] = 0]
    ELSE [s EXCEPT !.ref["paused"] = 0]

mouseMoveTimerFired(s) ==
  IF s.mounted
    THEN [s EXCEPT !.showPausedInfo = TRUE, !.dimVideo = TRUE, !.ref["mouseMove"] = 0]
    ELSE [s EXCEPT !.ref["mouseMove"] = 0]

\* setErrorMessage((cur) => cur && cur.includes("attempting") ? null : cur)
softNoticeTimeoutFired(s) ==
  IF s.mounted /\ s.errorMessage # NULL /\ IncludesAttempting(s.errorMessage)
    THEN [s EXCEPT !.errorMessage = NULL]
    ELSE s

\* the timeout of closeMenu: setOpenMenu(null); setIsMenuFading(false)
menuCloseFired(s) ==
  IF s.mounted THEN [s EXCEPT !.openMenu = NULL, !.isMenuFading = FALSE] ELSE s

TimerCallback(s, kind) ==
  CASE kind = "controls"  -> controlsTimeoutFired(s)
    [] kind = "cursor"    -> cursorTimeoutFired(s)
    [] kind = "flash"     -> flashTimeoutFired(s)
    [] kind = "vol"       -> volOverlayTimeoutFired(s)
    [] kind = "ripple"    -> rippleTimeoutFired(s)
    [] kind = "lang"      -> langTimeoutFired(s)
    [] kind = "paused"    -> pausedInfoTimeoutFired(s)
    [] kind = "mouseMove" -> mouseMoveTimerFired(s)
    [] kind = "soft"      -> softNoticeTimeoutFired(s)
    [] kind = "menu"      -> menuCloseFired(s)

OverlayVisible(s, kind) ==
  CASE kind = "flash"  -> s.flashType # NULL
    [] kind = "cursor" -> s.showCursorPlay
    [] kind = "ripple" -> s.ripple
    [] kind = "vol"    -> s.showVolumeOverlay
    [] kind = "lang"   -> s.langOverlay # NULL

Min(a, b) == IF a < b THEN a ELSE b

\* ------------------------------------------------------------ preferences
Max(a, b) == IF a > b THEN a ELSE b
\* const clamp = (val, min, max) => Math.min(Math.max(val, min), max)
clamp(val, min, max) == Min(Max(val, min), max)

\* localStorage.getItem + JSON.parse + a field read throw
ReadThrows(s, item) == s.storageFails \/ item.kind \in {"corrupt", "null"}
\* localStorage.getItem + JSON.parse + a field write + setItem throw; the module
\* is strict code, so is the assignment of a property to a number or a string.
WriteThrows(s, item) == s.storageFails \/ item.kind \in {"corrupt", "null", "scalar"}

\* Mutant: the item is written from scratch, with the one field.
PersistField_Overwrites(s, field, value) ==
  LET item == s.storage[s.video.id]
  IN  IF WriteThrows(s, item) THEN s
      ELSE IF item.kind = "array" THEN s
      ELSE [s EXCEPT !.storage[s.video.id] =
              [[MissingItem EXCEPT !.kind = "object"] EXCEPT ![field] = value]]

\* Mutant: the write is made outside any try block.
PersistField_NoCatch(s, field, value) ==
  LET item == s.storage[s.video.id]
  IN  IF WriteThrows(s, item) THEN [s EXCEPT !.uncaught = TRUE]
      ELSE IF item.kind = "array" THEN s
      ELSE [s EXCEPT !.storage[s.video.id] =
              [[item EXCEPT !.kind = "object"] EXCEPT ![field] = value]]

\* try { parsed = raw ? JSON.parse(raw) : {}; parsed[field] = value;
\*       localStorage.setItem(key, JSON.stringify(parsed)) } catch { console.warn }
\* JSON.stringify of an array drops the property, so an array is written back as it was.
PersistField(s, field, value) ==
  LET item == s.storage[s.video.id]
  IN  IF WriteThrows(s, item) THEN s
      ELSE IF item.kind = "array" THEN s
      ELSE [s EXCEPT !.storage[s.video.id] =
              [[item EXCEPT !.kind = "object"] EXCEPT ![field] = value]]

\* "load persisted settings" of the load effect
LoadPersisted(s) ==
  LET item == s.storage[s.video.id]
  IN  IF ReadThrows(s, item) \/ item.kind # "object" THEN s
      ELSE [s EXCEPT
              !.volume = IF item.volume \in 0..100 THEN item.volume ELSE @,
              !.playbackRate = IF item.playbackRate > 0 THEN item.playbackRate ELSE @,
              !.activeSubtitle = IF item.activeSubtitle # NoChoice
                                   THEN item.activeSubtitle ELSE @]

\* handleSubtitleChange(lang)
handleSubtitleChange(s, lang) ==
  LET a == [s EXCEPT !.activeSubtitle = lang]
      tracks == SubtitleTracks(s.video)
      wanted == IF lang = NULL THEN "" ELSE lang
  IN  IF ~s.mounted THEN a
      ELSE
        LET b == [a EXCEPT !.trackModes =
                    [i \in DOMAIN @ |->
                       IF TrackLang(tracks[i]) = wanted THEN "showing" ELSE "hidden"]]
            c == PersistField(b, "activeSubtitle", lang)
            found == {i \in 1..Len(tracks) : tracks[i].lang = lang}
            first == CHOOSE i \in found : \A j \in found : i <= j
            d == logAnalytics(c, "subtitle_toggle")
        IN  IF s.sinkThrows THEN Thrown(d)
            ELSE closeMenu(showLanguageOverlay(
                   d, IF found = {} THEN "Off" ELSE tracks[first].label))

\* KeyC: toggle subtitles
onKeyC(s) ==
  IF s.activeSubtitle = NULL
    THEN handleSubtitleChange(s, SubtitleTracks(s.video)[1].lang)
    ELSE handleSubtitleChange(s, NULL)

\* handleVolumeChange(val), val in percent
handleVolumeChange(s, val) ==
  LET normalized == clamp(val, 0, 100)
      a == [s EXCEPT !.volume = normalized, !.isMuted = (normalized = 0)]
      b == IF s.mounted
             THEN [a EXCEPT !.elVolume = normalized, !.elMuted = (normalized = 0)]
             ELSE a
      c == PersistField(b, "volume", normalized)
  IN  showVolOverlay(c, normalized)

\* handlePlaybackRateChange(r), r in hundredths
handlePlaybackRateChange(s, r) ==
  IF r <= 0 THEN s
  ELSE LET a == [s EXCEPT !.playbackRate = r]
           b == IF s.mounted THEN [a EXCEPT !.elRate = r] ELSE a
       IN  PersistField(b, "playbackRate", r)

\* ArrowUp
onArrowUp(s) ==
  LET volUp == clamp(s.elVolume + 5, 0, 100)
      a == [s EXCEPT !.elVolume = volUp, !.elMuted = FALSE, !.volume = volUp,
                     !.isMuted = FALSE]
  IN  showVolOverlay(a, volUp)

\* Mutant: ArrowDown lowers the volume and never mutes.
onArrowDown_NeverMutes(s) ==
  LET volDown == clamp(s.elVolume - 5, 0, 100)
  IN  showVolOverlay([s EXCEPT !.elVolume = volDown, !.volume = volDown], volDown)

\* ArrowDown
onArrowDown(s) ==
  LET volDown == clamp(s.elVolume - 5, 0, 100)
      a == [s EXCEPT !.elVolume = volDown, !.volume = volDown]
      b == IF volDown = 0 THEN [a EXCEPT !.elMuted = TRUE, !.isMuted = TRUE] ELSE a
  IN  showVolOverlay(b, volDown)

\* onClick of the mute button
onMuteButton(s) ==
  LET newMuted == ~s.elMuted
      a == [s EXCEPT !.elMuted = newMuted, !.isMuted = newMuted]
  IN  IF newMuted THEN showVolOverlay(a, 0)
      ELSE LET vol == IF s.elVolume # 0 THEN s.elVolume ELSE 100
           IN  showVolOverlay([a EXCEPT !.volume = vol], vol)

\* onLoaded, the loadedmetadata listener of the load effect: volume, playbackRate,
\* isMuted, activeSubtitle and handleSubtitleChange are those of the render whose
\* effect registered it.
onLoaded(s) ==
  LET cl == s.loadClosure
      a == IF DurationKnown(s.elDuration) THEN [s EXCEPT !.duration = s.elDuration] ELSE s
      b == [a EXCEPT !.loading = FALSE, !.elVolume = cl.volume,
                     !.elRate = cl.playbackRate, !.elMuted = cl.isMuted]
  IN  handleSubtitleChange(b, cl.activeSubtitle)

\* ------------------------------------------------------------ adaptive engine
EngineIds == 1..MaxEngines
\* calls: the startLoad / recoverMediaError calls made on the instance, counted
\* modulo 2 (a step made a call exactly when it flips); lastCmd: the last call;
\* late: the last command the instance was given after its destruction.
UnusedEngine ==
  [status |-> "unused", destroyCalls |-> 0, calls |-> 0, lastCmd |-> "none",
   currentLevel |-> -1, audioTrack |-> DefaultTrack, wired |-> FALSE,
   late |-> "none"]

\* hls.startLoad() / hls.recoverMediaError() on instance e
HlsCall(s, e, cmd) ==
  [s EXCEPT !.engines[e].calls = (@ + 1) % 2, !.engines[e].lastCmd = cmd]

\* hls.destroy() on instance e
HlsDestroy(s, e) ==
  [s EXCEPT !.engines[e].late = IF s.engines[e].status = "destroyed"
                                  THEN "destroy" ELSE @,
            !.engines[e].status = "destroyed",
            !.engines[e].destroyCalls = @ + 1,
            !.engines[e].lastCmd = "destroy",
            !.audioSignals = 0]

Log(s, call) ==
  IF s.teardown # <<>> /\ s.teardown[Len(s.teardown)] = call THEN s
  ELSE [s EXCEPT !.teardown = Append(@, call)]

\* if (hlsRef.current) { try { hlsRef.current.destroy(); } catch {} hlsRef.current = null; }
DestroyHlsRef(s) ==
  IF s.hlsRef # 0 THEN [Log(HlsDestroy(s, s.hlsRef), "destroy") EXCEPT !.hlsRef = 0] ELSE s

\* Hls.isSupported() && video.videoUrl && video.videoUrl.endsWith(".m3u8"),
\* on a browser with Media Source Extensions
UsesHls(v) == v.ext = "m3u8"

CanLoad(s, v) == UsesHls(v) => \E e \in EngineIds : s.engines[e].status = "unused"

\* The element's load algorithm, run when a source is assigned: the element is
\* paused with no pause event, its position and default start position are 0,
\* its readyState is HAVE_NOTHING and its duration NaN; a position that was not
\* 0 queues a timeupdate.
MediaLoad(s, src) ==
  [s EXCEPT !.elSrc = src, !.elPaused = TRUE, !.elReady = FALSE, !.elTime = 0,
            !.elStartPos = 0, !.elDuration = NaNDur,
            !.tuOwed = @ \/ s.elTime # 0]

\* The load effect, keyed on [video.videoUrl, video.id].  Assigning a source to the
\* element (hls.attachMedia(v) or v.src = url) runs the element's load algorithm,
\* which leaves it paused without a pause event.
loadEffect(s) ==
  LET a == [s EXCEPT !.loading = TRUE, !.error = NULL]
      b == DestroyHlsRef(a)
  IN  IF UsesHls(b.video)
        THEN LET e == CHOOSE x \in EngineIds :
                        /\ b.engines[x].status = "unused"
                        /\ \A y \in EngineIds : b.engines[y].status = "unused" => x <= y
             IN  [MediaLoad(b, 0) EXCEPT !.engines[e].status = "live", !.hlsRef = e,
                                         !.loadListeners = FALSE]
        ELSE LoadPersisted(
               [MediaLoad(b, 0) EXCEPT
                  !.loading = FALSE, !.loadListeners = TRUE,
                  !.loadClosure = [volume |-> s.volume, playbackRate |-> s.playbackRate,
                                   isMuted |-> s.isMuted,
                                   activeSubtitle |-> s.activeSubtitle]])

\* Mutant: the cleanup clears hlsRef before it uses it, so destroy() is never called.
loadEffectCleanup_RefClearedFirst(s) ==
  IF s.loadListeners THEN [s EXCEPT !.loadListeners = FALSE] ELSE [s EXCEPT !.hlsRef = 0]

\* The cleanup the load effect returned: the HLS branch returns early with the
\* engine teardown, the native branch returns the removal of its four listeners.
loadEffectCleanup(s) ==
  IF s.loadListeners THEN [s EXCEPT !.loadListeners = FALSE] ELSE DestroyHlsRef(s)

ClearLogged(s, kind, nullIt) ==
  IF s.ref[kind] = 0 THEN s
  ELSE LET a == Log(ClearTimeout(s, kind, s.ref[kind]), "clearTimeout")
       IN  IF nullIt THEN [a EXCEPT !.ref[kind] = 0] ELSE a

\* cleanup of the playback effect, keyed on [autoPlayNext, episodes, activeEpisodeIndex, video.id]
playbackEffectCleanup(s) ==
  ClearLogged(ClearLogged(s, "paused", TRUE), "mouseMove", TRUE)

\* The VTT effect, keyed on [thumbnailsVtt]: starts the cue-file fetch.
vttEffect(s) ==
  IF s.thumbnailsVtt = NULL THEN [s EXCEPT !.vttCues = 0]
  ELSE [s EXCEPT !.fetchState = "inflight", !.fetchFor = s.video.id]

\* The fetch settles: the cue file parsed, or a failure other than an abort.
fetchSettled(s, ok) ==
  [s EXCEPT !.fetchState = "done", !.vttCues = IF ok THEN s.fetchFor ELSE 0]

\* its cleanup: ac.abort()
vttEffectCleanup(s) ==
  IF s.thumbnailsVtt = NULL THEN s
  ELSE LET a == Log(s, "abort")
       IN  IF a.fetchState = "inflight" THEN [a EXCEPT !.fetchState = "aborted"] ELSE a

\* cleanup of the ripple effect
rippleEffectCleanup(s) == ClearLogged(s, "ripple", FALSE)

\* cleanup of the last effect ("Cleanup timeouts and HLS on unmount")
unmountEffectCleanup(s) ==
  LET a == ClearLogged(s, "controls", FALSE)
      b == ClearLogged(a, "cursor", FALSE)
      c == ClearLogged(b, "flash", FALSE)
      d == ClearLogged(c, "vol", FALSE)
  IN  DestroyHlsRef(d)

\* cleanup of the drag effect: removeEventListener is called with two arrow
\* functions created on the spot, which were never registered, so no listener
\* of a drag is removed.
dragEffectCleanup(s) == s

\* Unmount: React detaches videoRef and runs every effect cleanup in the order
\* the hooks are declared.
unmount(s) ==
  LET a == [s EXCEPT !.teardown = <<>>, !.mounted = FALSE, !.evq = <<>>]
      b == rippleEffectCleanup(a)
      c == loadEffectCleanup(b)
      d == playbackEffectCleanup(c)
      e == vttEffectCleanup(d)
      f == dragEffectCleanup(e)
  IN  unmountEffectCleanup(f)

\* A new content descriptor: the cleanups of the effects whose dependencies
\* changed run in declaration order, then those effects run again.
changeVideo(s, nv) ==
  LET idChanged == nv.id # s.video.id
      a == [s EXCEPT !.teardown = <<>>, !.video = nv]
      b == loadEffectCleanup(a)
      c == IF idChanged THEN playbackEffectCleanup(b) ELSE b
  IN  loadEffect(c)

\* Hls.Events.MANIFEST_PARSED
\* By then the engine has chosen its first audio rendition; the handler wires the
\* audio listeners, which close over mergedTracks.
\* readOk is false when reading the levels or the tracks throws: the catch block
\* then stores an empty audio list, and the listeners are not wired.
onManifestParsed(s, e, readOk) ==
  IF readOk
    THEN [s EXCEPT !.selectedQualityIndex = -1,
                   !.audioTracks = MergedTracks(s.video),
                   !.audioSentinel = TRUE,
                   !.selectedAudioTrack = DefaultTrack,
                   !.engines[e].audioTrack = 0,
                   !.engines[e].wired = TRUE,
                   !.loading = FALSE, !.errorMessage = NULL]
    ELSE [s EXCEPT !.selectedQualityIndex = -1,
                   !.audioTracks = {},
                   !.audioSentinel = FALSE,
                   !.selectedAudioTrack = DefaultTrack,
                   !.engines[e].audioTrack = 0,
                   !.loading = FALSE, !.errorMessage = NULL]

\* Mutant: every fatal error takes the default case (destroy and persistent message).
onHlsError_FatalAlwaysDestroys(s, e, fatal, type) ==
  IF ~fatal
    THEN LET msg == CASE type = "networkError" -> MsgSoftNetwork
                      [] type = "mediaError"   -> MsgSoftMedia
                      [] OTHER                 -> MsgSoftOther
         IN  SetTimeoutFree([s EXCEPT !.errorMessage = msg], "soft")
    ELSE HlsDestroy([s EXCEPT !.errorMessage = MsgFatalOther, !.loading = FALSE], e)

\* Mutant: the media case lost its break and falls through into the default case.
onHlsError_MediaFallsThrough(s, e, fatal, type) ==
  IF ~fatal
    THEN LET msg == CASE type = "networkError" -> MsgSoftNetwork
                      [] type = "mediaError"   -> MsgSoftMedia
                      [] OTHER                 -> MsgSoftOther
         IN  SetTimeoutFree([s EXCEPT !.errorMessage = msg], "soft")
    ELSE CASE type = "networkError" ->
                HlsCall([s EXCEPT !.errorMessage = MsgFatalNetwork], e, "startLoad")
           [] type = "mediaError" ->
                HlsDestroy([HlsCall(s, e, "recoverMediaError")
                              EXCEPT !.errorMessage = MsgFatalOther, !.loading = FALSE], e)
           [] OTHER ->
                HlsDestroy([s EXCEPT !.errorMessage = MsgFatalOther, !.loading = FALSE], e)

\* Hls.Events.ERROR on instance e (the handler closes over `hls`, not hlsRef)
onHlsError(s, e, fatal, type) ==
  IF ~fatal
    THEN LET msg == CASE type = "networkError" -> MsgSoftNetwork
                      [] type = "mediaError"   -> MsgSoftMedia
                      [] OTHER                 -> MsgSoftOther
         IN  SetTimeoutFree([s EXCEPT !.errorMessage = msg], "soft")
    ELSE CASE type = "networkError" ->
                HlsCall([s EXCEPT !.errorMessage = MsgFatalNetwork], e, "startLoad")
           [] type = "mediaError" ->
                HlsCall([s EXCEPT !.errorMessage = MsgFatalMedia], e, "recoverMediaError")
           [] OTHER ->
                HlsDestroy([s EXCEPT !.errorMessage = MsgFatalOther, !.loading = FALSE], e)

\* The element's error event: the load effect's onError when it is registered,
\* then the playback effect's onError.
onMediaError(s) ==
  LET a == IF s.loadListeners
             THEN [s EXCEPT !.error = "Failed to load video.", !.loading = FALSE]
             ELSE s
  IN  [a EXCEPT !.errorMessage = MsgElement]

\* The banner "Playback Error" renders `error`; errorMessage is rendered nowhere.
BannerVisible(s) == s.error # NULL


\* KeyM: toggle mute
onKeyM(s) ==
  LET newMuted == ~s.elMuted
      a == [s EXCEPT !.elMuted = newMuted, !.isMuted = newMuted]
  IN  showVolOverlay(a, IF newMuted THEN 0 ELSE a.elVolume)

\* handleVideoClick, the onPointerDown of the container: a tap within
\* TAP_THRESHOLD of lastTapTime is ignored; lastTapTime = now; a target inside a
\* control returns; else triggerRipple and togglePlay.  setRipple stores a new
\* object, so the component re-renders after every tap that gets that far.
handleVideoClick(s, inControl, playOk) ==
  IF s.tapAge < TAP_THRESHOLD THEN s
  ELSE IF inControl THEN [s EXCEPT !.tapAge = 0]
  ELSE [togglePlay(triggerRipple(s), TRUE, playOk) EXCEPT
          !.tapAge = TAP_THRESHOLD, !.sinceTap = 0]

\* ------------------------------------------------------------ audio tracks
\* hls.currentLevel = idx on instance e
HlsSetCurrentLevel(s, e, idx) ==
  [s EXCEPT !.engines[e].currentLevel = idx,
            !.engines[e].late = IF s.engines[e].status = "destroyed"
                                  THEN "currentLevel" ELSE @]

\* hls.audioTrack = id on instance e: an id the engine does not have, or a call
\* on a destroyed instance, is ignored; the current id is left as it is; another
\* id becomes current and AUDIO_TRACK_SWITCHED follows.
HlsSetAudioTrack(s, e, id) ==
  IF s.engines[e].status = "destroyed" THEN [s EXCEPT !.engines[e].late = "audioTrack"]
  ELSE IF s.engines[e].status # "live" \/ id \notin EngineAudioTracks(s.video)
       \/ id = s.engines[e].audioTrack
    THEN s
    ELSE [s EXCEPT !.engines[e].audioTrack = id,
                   !.audioSignals = IF s.engines[e].wired THEN @ + 1 ELSE @]

\* handleAudioSwitch(trackId): without an engine it returns at once; with one,
\* logAnalytics and closeMenu are inside the try block, so a throwing sink skips
\* closeMenu and the exception is caught.
handleAudioSwitch(s, trackId) ==
  IF s.hlsRef = 0 THEN [s EXCEPT !.selectedAudioTrack = DefaultTrack]
  ELSE LET a == HlsSetAudioTrack(s, s.hlsRef, IF trackId = DefaultTrack THEN 0 ELSE trackId)
           b == logAnalytics([a EXCEPT !.selectedAudioTrack = trackId], "audio_change")
       IN  IF s.sinkThrows THEN b ELSE closeMenu(b)

\* handleAudioChange(trackId); the audioTracks state holds the Auto / Default
\* entry whenever it holds any
handleAudioChange(s, trackId) ==
  LET a == [handleAudioSwitch(s, trackId) EXCEPT !.selectedAudioTrack = trackId]
      b == IF trackId \in s.audioTracks \/ (trackId = DefaultTrack /\ s.audioTracks # {})
             THEN showLanguageOverlay(a, "audio")
             ELSE a
  IN  closeMenu(b)

\* KeyD: the entry after the selected one in [default, ...audioTracks], cyclically
NextAudioEntry(s) ==
  IF s.selectedAudioTrack = DefaultTrack
    THEN CHOOSE i \in s.audioTracks : \A j \in s.audioTracks : i <= j
    ELSE IF s.selectedAudioTrack \notin s.audioTracks THEN DefaultTrack
    ELSE IF \E j \in s.audioTracks : j > s.selectedAudioTrack
      THEN CHOOSE i \in s.audioTracks :
             i > s.selectedAudioTrack /\ \A j \in s.audioTracks : j > s.selectedAudioTrack => i <= j
      ELSE DefaultTrack

onKeyD(s) ==
  IF s.audioTracks = {} THEN s ELSE handleAudioSwitch(s, NextAudioEntry(s))

\* onAudioTrackSwitched / onAudioTracksUpdated of instance e
onAudioTrackSwitched(s, e) ==
  LET cur == s.engines[e].audioTrack
  IN  [s EXCEPT !.selectedAudioTrack =
         IF cur \in MergedTracks(s.video) THEN cur ELSE DefaultTrack]

\* ------------------------------------------------------------ media position
\* The v.currentTime getter: the default playback start position unless that is
\* zero, else the playback position.
Position(s) == IF s.elStartPos # 0 THEN s.elStartPos ELSE s.elTime

\* The v.currentTime setter for a finite value t: with readyState HAVE_NOTHING it
\* sets the default playback start position, else it seeks, and the seek
\* algorithm brings the position into [0, duration] and queues a timeupdate.
SetCurrentTime(s, t) ==
  LET a == [s EXCEPT !.seekLog = [made |-> TRUE, pos |-> t, dur |-> s.elDuration]]
  IN  IF ~s.elReady THEN [a EXCEPT !.elStartPos = IF t < 0 THEN 0 ELSE t]
      ELSE [a EXCEPT !.tuOwed = TRUE,
                     !.elTime =
                       IF t < 0 THEN 0
                       ELSE IF s.elDuration # InfDur /\ t > s.elDuration THEN s.elDuration
                       ELSE t]

\* v.play().catch(() => {}) from a click: the element leaves the paused state and
\* queues "play".
MediaPlayQuiet(s) ==
  IF s.elPaused THEN [s EXCEPT !.elPaused = FALSE, !.evq = Append(@, "play")] ELSE s

\* Mutant: the source is swapped and the captured position is not written back.
handleQualitySwitch_TimeNotRestored(s, idx) ==
  IF ~s.mounted THEN s
  ELSE
    LET wasPlaying == ~s.elPaused
        a == IF s.hlsRef # 0
               THEN HlsSetCurrentLevel(s, s.hlsRef, idx)
               ELSE IF idx \in QualityIndexes /\ QualityUrl(idx) # s.elSrc
                 THEN LET b == MediaLoad(s, QualityUrl(idx))
                      IN  IF wasPlaying THEN MediaPlayQuiet(b) ELSE b
                 ELSE s
        d == logAnalytics(closeMenu([a EXCEPT !.selectedQualityIndex = idx]),
                          "quality_change")
    IN  IF s.sinkThrows THEN Thrown(d) ELSE d

\* handleQualitySwitch(idx)
handleQualitySwitch(s, idx) ==
  IF ~s.mounted THEN s
  ELSE
    LET currentTime == Position(s)
        wasPlaying == ~s.elPaused
        a == IF s.hlsRef # 0
               THEN HlsSetCurrentLevel(s, s.hlsRef, idx)
               ELSE IF idx \in QualityIndexes /\ QualityUrl(idx) # s.elSrc
                 THEN LET b == MediaLoad(s, QualityUrl(idx))
                          c == SetCurrentTime(b, currentTime)
                      IN  IF wasPlaying THEN MediaPlayQuiet(c) ELSE c
                 ELSE s
        d == logAnalytics(closeMenu([a EXCEPT !.selectedQualityIndex = idx]),
                          "quality_change")
    IN  IF s.sinkThrows THEN Thrown(d) ELSE d

\* The element's metadata arrives: it is ready, its duration is known, and a
\* non-zero default playback start position is sought and reset.
MediaMetadata(s) ==
  LET d == MediaDuration(s.video.id)
      t == IF d # InfDur /\ s.elStartPos > d THEN d ELSE s.elStartPos
  IN  [s EXCEPT !.elReady = TRUE, !.elDuration = d, !.elTime = t, !.elStartPos = 0,
                !.tuOwed = @ \/ t # 0]

\* onTime, the timeupdate listener of the playback effect; beatDue: more than
\* 15 s have passed since the last heartbeat
onTime(s, beatDue) ==
  LET a == IF DurationKnown(s.elDuration) /\ s.elDuration > 0
             THEN [s EXCEPT !.progressPercent = (s.elTime * 100) \div s.elDuration]
             ELSE s
      b == logAnalytics(a, "video_heartbeat")
  IN  IF ~beatDue THEN a ELSE IF s.sinkThrows THEN Thrown(b) ELSE b

\* onLoadedMetadata of the playback effect
onLoadedMetadata(s) ==
  IF DurationKnown(s.elDuration) THEN [s EXCEPT !.duration = s.elDuration] ELSE s

\* ------------------------------------------------------------ seek commands
\* Positions are whole seconds; a product that is not whole is rounded down.
DOUBLE_CLICK_SEEK == 10
ARROW_SEEK == 5
BUTTON_SEEK == 10

\* ArrowRight
onArrowRight(s) ==
  IF DurationKnown(s.elDuration)
    THEN SetCurrentTime(s, Min(s.elDuration, Position(s) + ARROW_SEEK))
    ELSE s

\* ArrowLeft
onArrowLeft(s) ==
  IF DurationKnown(s.elDuration)
    THEN SetCurrentTime(s, Max(0, Position(s) - ARROW_SEEK))
    ELSE s

\* Digit0 .. Digit9: jump to a tenth of the duration
onDigit(s, digit) ==
  IF DurationKnown(s.elDuration)
    THEN SetCurrentTime(s, (s.elDuration * digit) \div 10)
    ELSE s

\* handleDoubleClick on the right or the left half of the surface
handleDoubleClick(s, isRight) ==
  IF ~s.mounted \/ ~DurationKnown(s.elDuration) THEN s
  ELSE LET seekAmount == IF isRight THEN DOUBLE_CLICK_SEEK ELSE -DOUBLE_CLICK_SEEK
           a == SetCurrentTime(s, clamp(Position(s) + seekAmount, 0, s.elDuration))
       IN  showCursorTransient(a)

\* onClick of the "Rewind 10s" button
onRewindButton(s) ==
  IF ~s.mounted THEN s
  ELSE SetCurrentTime(s, Max(0, Position(s) - BUTTON_SEEK))

\* onClick of the "Forward 10s" button.  Math.min(NaN, t) is NaN, and the
\* assignment of a non-finite value to v.currentTime throws a TypeError, which
\* nothing catches; Math.min(Infinity, t) is t.
onForwardButton(s) ==
  IF ~s.mounted THEN s
  ELSE IF s.elDuration = NaNDur
    THEN [s EXCEPT !.uncaught = TRUE,
                   !.seekLog = [made |-> TRUE, pos |-> NaNDur, dur |-> NaNDur]]
  ELSE IF s.elDuration = InfDur
    THEN SetCurrentTime(s, Position(s) + BUTTON_SEEK)
  ELSE SetCurrentTime(s, Min(s.elDuration, Position(s) + BUTTON_SEEK))

\* handleSeek: a click on the timeline at pct percent of its width; the guard
\* and the product use the duration state
handleSeek(s, pct) ==
  IF ~s.mounted \/ ~DurationKnown(s.duration) THEN s
  ELSE showControlsTemporarily(
         [SetCurrentTime(s, (pct * s.duration) \div 100) EXCEPT !.progressPercent = pct])

\* startDrag, the mousemove listener of a drag on the timeline
startDrag(s, pct) ==
  IF ~s.mounted \/ ~DurationKnown(s.duration) THEN s
  ELSE [SetCurrentTime(s, (pct * s.duration) \div 100) EXCEPT !.progressPercent = pct]

\* beginDrag (onMouseDown of the timeline): a new startDrag and a new endDrag
\* are added to document.
beginDrag(s) == [s EXCEPT !.docListeners = @ + 1]

\* endDrag, the mouseup listener of a drag: it removes itself and its startDrag.
endDrag(s) == [s EXCEPT !.docListeners = @ - 1]

\* A mouseup on document is dispatched to every endDrag registered.
RECURSIVE MouseUpDispatched(_, _)
MouseUpDispatched(s, n) == IF n = 0 THEN s ELSE MouseUpDispatched(endDrag(s), n - 1)

\* onClick of Restart on the "Playback ended" overlay
onRestart(s) ==
  IF ~s.mounted THEN s
  ELSE [MediaPlayQuiet(SetCurrentTime(s, 0)) EXCEPT !.showResumeOverlay = FALSE]

\* The element fires loadedmetadata: the load effect's listener, if registered,
\* runs before the playback effect's.
Loaded(s) ==
  LET m == MediaMetadata(s)
  IN  onLoadedMetadata(IF s.loadListeners THEN onLoaded(m) ELSE m)

\* ------------------------------------------------------------ initial state
\* The state after the first render and its effects, for descriptor v.
Fresh(v) ==
  [mounted |-> TRUE, video |-> v, thumbnailsVtt |-> ThumbnailsVttOf(v),
   timers |-> {}, ref |-> [k \in RefKinds |-> 0],
   sinceShown |-> [k \in OverlayKinds |-> 0], flashType |-> NULL,
   showCursorPlay |-> FALSE, ripple |-> FALSE, showVolumeOverlay |-> FALSE,
   volumeOverlayValue |-> 100, langOverlay |-> NULL, showPausedInfo |-> FALSE,
   dimVideo |-> FALSE, showControls |-> TRUE, controlsVisibleDueToMove |-> FALSE,
   isPlaying |-> FALSE, showResumeOverlay |-> FALSE, showUpNextOverlay |-> FALSE,
   elPaused |-> TRUE, evq |-> <<>>, elMuted |-> FALSE, elVolume |-> 100,
   isMuted |-> FALSE, error |-> NULL, errorMessage |-> NULL, loading |-> TRUE,
   hlsRef |-> 0, engines |-> [e \in EngineIds |-> UnusedEngine],
   loadListeners |-> FALSE, fetchState |-> "none", elSrc |-> 0,
   elReady |-> FALSE,
   elTime |-> 0,
   elStartPos |-> 0,
   elDuration |-> NaNDur,
   duration |-> 0,
   selectedQualityIndex |-> -1,
   seekLog |-> NoSeek, selectedAudioTrack |-> DefaultTrack, audioTracks |-> {}, audioSignals |-> 0,
   volume |-> 100, playbackRate |-> 100, elRate |-> 100, activeSubtitle |-> NULL,
   trackModes |-> InitialModes(v), storage |-> [i \in 1..NumVideos |-> MissingItem],
   storageFails |-> FALSE, loadClosure |-> DefaultClosure, uncaught |-> FALSE,
   tapAge |-> TAP_THRESHOLD, sinceTap |-> TAP_THRESHOLD, docListeners |-> 0,
   fetchFor |-> 0, vttCues |-> 0, progressPercent |-> 0, tuOwed |-> FALSE,
   audioSentinel |-> FALSE, openMenu |-> NULL, isMenuFading |-> FALSE,
   emitted |-> <<>>, sinkThrows |-> FALSE,
   teardown |-> <<>>]

Mounted(v) == vttEffect(loadEffect(Fresh(v)))

Starts(s) ==
  /\ mounted = s.mounted /\ video = s.video /\ thumbnailsVtt = s.thumbnailsVtt
  /\ timers = s.timers /\ ref = s.ref /\ sinceShown = s.sinceShown
  /\ flashType = s.flashType /\ showCursorPlay = s.showCursorPlay
  /\ ripple = s.ripple /\ showVolumeOverlay = s.showVolumeOverlay
  /\ volumeOverlayValue = s.volumeOverlayValue /\ langOverlay = s.langOverlay
  /\ showPausedInfo = s.showPausedInfo /\ dimVideo = s.dimVideo
  /\ showControls = s.showControls
  /\ controlsVisibleDueToMove = s.controlsVisibleDueToMove
  /\ isPlaying = s.isPlaying /\ showResumeOverlay = s.showResumeOverlay
  /\ showUpNextOverlay = s.showUpNextOverlay /\ elPaused = s.elPaused
  /\ elMuted = s.elMuted /\ elVolume = s.elVolume /\ isMuted = s.isMuted
  /\ evq = s.evq /\ error = s.error /\ errorMessage = s.errorMessage
  /\ loading = s.loading /\ hlsRef = s.hlsRef /\ engines = s.engines
  /\ loadListeners = s.loadListeners /\ fetchState = s.fetchState
  /\ elSrc = s.elSrc
  /\ elReady = s.elReady
  /\ elTime = s.elTime
  /\ elStartPos = s.elStartPos
  /\ elDuration = s.elDuration
  /\ duration = s.duration
  /\ selectedQualityIndex = s.selectedQualityIndex
  /\ seekLog = s.seekLog
  /\ selectedAudioTrack = s.selectedAudioTrack
  /\ audioTracks = s.audioTracks
  /\ audioSignals = s.audioSignals
  /\ volume = s.volume
  /\ playbackRate = s.playbackRate
  /\ elRate = s.elRate
  /\ activeSubtitle = s.activeSubtitle
  /\ trackModes = s.trackModes
  /\ storage = s.storage
  /\ storageFails = s.storageFails
  /\ loadClosure = s.loadClosure
  /\ uncaught = s.uncaught
  /\ tapAge = s.tapAge
  /\ sinceTap = s.sinceTap
  /\ docListeners = s.docListeners
  /\ fetchFor = s.fetchFor
  /\ vttCues = s.vttCues
  /\ progressPercent = s.progressPercent
  /\ tuOwed = s.tuOwed
  /\ audioSentinel = s.audioSentinel
  /\ openMenu = s.openMenu
  /\ isMenuFading = s.isMenuFading
  /\ emitted = s.emitted
  /\ sinkThrows = s.sinkThrows
  /\ teardown = s.teardown

Init == \E v \in Videos : Starts(Mounted(v))

\* The player is opened again on the same content: a new component instance in
\* the same browser, so localStorage is as the last session left it.  Timeouts
\* of the instance that was unmounted only call its setters, which do nothing.
Reopened(s) ==
  vttEffect(loadEffect([Fresh(s.video) EXCEPT
                          !.storage = s.storage, !.storageFails = s.storageFails,
                          !.engines = s.engines, !.uncaught = s.uncaught,
                          !.sinkThrows = s.sinkThrows]))

\* ------------------------------------------------------------ actions
\* Space key or the play / pause button: togglePlay(x, y)
TogglePlay ==
  /\ mounted /\ Len(evq) < MaxEvq
  /\ \E playOk \in BOOLEAN : Becomes(togglePlay(View, TRUE, playOk))

\* pointer down on the video surface
VideoClick ==
  /\ mounted /\ Len(evq) < MaxEvq
  /\ \E playOk \in BOOLEAN : Becomes(handleVideoClick(View, FALSE, playOk))

\* A pointer-down inside the control bar, on none of its buttons.
ControlTap ==
  /\ mounted
  /\ Becomes(handleVideoClick(View, TRUE, TRUE))

\* Time between two pointer events in a burst, less than TAP_THRESHOLD.
TapStepMs == 100

\* TapStepMs milliseconds pass.
Wait ==
  /\ tapAge < TAP_THRESHOLD \/ sinceTap < TAP_THRESHOLD
  /\ Becomes([View EXCEPT !.tapAge = Min(@ + TapStepMs, TAP_THRESHOLD),
                          !.sinceTap = Min(@ + TapStepMs, TAP_THRESHOLD)])

\* mouse move over the backdrop: the dialog's onMouseMove
MouseMoveDialog ==
  /\ mounted
  /\ Becomes(handleMouseMove(View))

\* mouse move over the video container: its own onMouseMove, then the dialog's
MouseMoveContainer ==
  /\ mounted
  /\ Becomes(handleMouseMove(showControlsTemporarily(View)))

KeyM ==
  /\ mounted
  /\ Becomes(onKeyM(View))

\* A track switch shows the language HUD (handleSubtitleChange, handleAudioChange).
ShowLanguageOverlay ==
  /\ mounted
  /\ Cardinality(PendingOf(View, "lang")) < MaxStack
  /\ \E label \in {"English", "Off"} : Becomes(showLanguageOverlay(View, label))

\* One tick of the clock; a due timer runs before time moves on.
Tick ==
  /\ timers # {}
  /\ \A t \in timers : t.left > 0
  /\ Becomes([View EXCEPT
       !.timers = {[t EXCEPT !.left = @ - 1] : t \in timers},
       !.sinceShown = [k \in OverlayKinds |->
                         IF OverlayVisible(View, k)
                           THEN Min(sinceShown[k] + 1, Ticks(Duration(k)))
                           ELSE 0],
       !.tapAge = TAP_THRESHOLD,
       !.sinceTap = TAP_THRESHOLD])

\* A due timeout runs its callback.
TimerFire ==
  \E t \in timers :
    /\ t.left = 0
    /\ Becomes(TimerCallback([View EXCEPT !.timers = @ \ {t}], t.kind))

\* The element dispatches its next queued event to the playback effect's listeners.
DispatchMediaEvent ==
  /\ mounted /\ evq # <<>>
  /\ LET s == [View EXCEPT !.evq = Tail(@)]
     IN  Becomes(CASE Head(evq) = "play"  -> onPlay(s)
                   [] Head(evq) = "pause" -> onPause(s)
                   [] Head(evq) = "ended" -> onEnded(s))

\* Playback reaches the end of a finite media: the element pauses and fires
\* pause, then ended.
MediaEnded ==
  /\ mounted /\ elReady /\ elDuration # InfDur /\ ~elPaused /\ evq = <<>>
  /\ Becomes([View EXCEPT !.elPaused = TRUE, !.evq = <<"pause", "ended">>])

Unmount ==
  /\ mounted
  /\ Becomes(unmount(View))

ChangeVideo ==
  /\ mounted
  /\ \E nv \in Videos :
       /\ nv # video
       /\ CanLoad(View, nv)
       /\ Becomes(changeVideo(View, nv))

ManifestParsed ==
  \E e \in EngineIds :
    /\ engines[e].status = "live" /\ ~engines[e].wired
    /\ \E readOk \in BOOLEAN : Becomes(onManifestParsed(View, e, readOk))

\* Instance e reports an error; a destroyed instance emits nothing.
HlsErrorStep(e, fatal, type) ==
  /\ engines[e].status = "live"
  /\ ~fatal => Cardinality(PendingOf(View, "soft")) < MaxStack
  /\ Becomes(onHlsError(View, e, fatal, type))

HlsError ==
  \E e \in EngineIds, fatal \in BOOLEAN, type \in ErrorTypes : HlsErrorStep(e, fatal, type)

\* The media element fires its error event.
MediaErrorEvent ==
  /\ mounted
  /\ Becomes(onMediaError(View))

\* The banner's Dismiss button
DismissError ==
  /\ mounted /\ error # NULL
  /\ Becomes([View EXCEPT !.error = NULL])

\* The cue-file fetch settles (response parsed, or failed).
FetchSettles ==
  /\ fetchState = "inflight"
  /\ \E ok \in BOOLEAN : Becomes(fetchSettled(View, ok))

\* The menus of the control bar.
Menus == {"subs", "settings"}

\* onClick of a menu button
ToggleMenu ==
  /\ mounted
  /\ \E m \in Menus : Becomes(toggleMenu(View, m))

\* useClickOutside(menuPanelRef, closeMenu, !!openMenu): a click outside the panel
ClickOutside ==
  /\ mounted /\ openMenu # NULL
  /\ Cardinality(PendingOf(View, "menu")) < MaxStack
  /\ Becomes(closeMenu(View))

\* The settings menu: an audio entry, or Auto / Default, is chosen.
AudioChangeStep(trackId) ==
  /\ mounted
  /\ audioSignals < MaxEvq
  /\ Cardinality(PendingOf(View, "lang")) < MaxStack
  /\ Cardinality(PendingOf(View, "menu")) < MaxStack
  /\ Becomes(handleAudioChange(View, trackId))

AudioChange == \E trackId \in {DefaultTrack} \cup audioTracks : AudioChangeStep(trackId)

KeyD ==
  /\ mounted
  /\ audioSignals < MaxEvq
  /\ Cardinality(PendingOf(View, "menu")) < MaxStack
  /\ Becomes(onKeyD(View))

\* The engine changes its audio rendition on its own.
EngineSwitchesAudio ==
  /\ hlsRef # 0 /\ engines[hlsRef].status = "live" /\ engines[hlsRef].wired
  /\ audioSignals < MaxEvq
  /\ \E id \in EngineAudioTracks(video) :
       /\ id # engines[hlsRef].audioTrack
       /\ Becomes([View EXCEPT !.engines[hlsRef].audioTrack = id,
                               !.audioSignals = @ + 1])

\* The engine delivers AUDIO_TRACK_SWITCHED or AUDIO_TRACKS_UPDATED.
AudioSignal ==
  /\ mounted /\ audioSignals > 0
  /\ hlsRef # 0 /\ engines[hlsRef].status = "live"
  /\ Becomes(onAudioTrackSwitched([View EXCEPT !.audioSignals = @ - 1], hlsRef))

\* The settings menu: a quality entry, or Auto (-1), is chosen.
QualitySwitchStep(idx) ==
  /\ mounted /\ Len(evq) < MaxEvq
  /\ Cardinality(PendingOf(View, "menu")) < MaxStack
  /\ Becomes(handleQualitySwitch(View, idx))

QualitySwitch == \E idx \in {-1} \cup QualityIndexes : QualitySwitchStep(idx)

LoadedMetadata ==
  /\ mounted /\ ~elReady
  /\ loadListeners => /\ Cardinality(PendingOf(View, "lang")) < MaxStack
                      /\ Cardinality(PendingOf(View, "menu")) < MaxStack
  /\ Becomes(Loaded(View))

\* The element fires timeupdate: after a seek or a reset of the position, and
\* from time to time during playback.
TimeUpdate ==
  /\ mounted /\ (tuOwed \/ ~elPaused)
  /\ \E beatDue \in BOOLEAN : Becomes(onTime([View EXCEPT !.tuOwed = FALSE], beatDue))

\* One second of playback.
Advance ==
  /\ mounted /\ elReady /\ ~elPaused
  /\ elTime < (IF elDuration = InfDur THEN MaxTime ELSE elDuration)
  /\ Becomes([View EXCEPT !.elTime = @ + 1, !.tuOwed = TRUE])

\* The subtitles menu: Off (NULL) or the language of one of the tracks.
SubtitleChoices(v) == {NULL} \cup {SubtitleTracks(v)[i].lang : i \in 1..Len(SubtitleTracks(v))}

SubtitleChangeStep(lang) ==
  /\ mounted
  /\ Cardinality(PendingOf(View, "lang")) < MaxStack
  /\ Cardinality(PendingOf(View, "menu")) < MaxStack
  /\ Becomes(handleSubtitleChange(View, lang))

SubtitleChange == \E lang \in SubtitleChoices(video) : SubtitleChangeStep(lang)

KeyC ==
  /\ mounted
  /\ Cardinality(PendingOf(View, "lang")) < MaxStack
  /\ Cardinality(PendingOf(View, "menu")) < MaxStack
  /\ Becomes(onKeyC(View))

\* The volume slider: handleVolumeChange(val / 100); the values below 0 and above
\* 100 stand for a caller other than the slider.
VolumeInputs == {-50, 0, 40, 150}

VolumeChangeStep(val) ==
  /\ mounted
  /\ Becomes(handleVolumeChange(View, val))

VolumeChange == \E val \in VolumeInputs : VolumeChangeStep(val)

ArrowUp ==
  /\ mounted
  /\ Becomes(onArrowUp(View))

ArrowDown ==
  /\ mounted
  /\ Becomes(onArrowDown(View))

MuteButton ==
  /\ mounted
  /\ Becomes(onMuteButton(View))

\* Entries of the speed tab of the settings menu, in hundredths.
RateChoices == {50, 100, 200}

RateChangeStep(r) ==
  /\ mounted
  /\ Becomes(handlePlaybackRateChange(View, r))

RateChange == \E r \in RateChoices : RateChangeStep(r)

\* Something else in the browser leaves an item under the key that is not a JSON object.
StorageDamaged ==
  \E kind \in UnreadableKinds :
    /\ storage[video.id].kind # kind
    /\ Becomes([View EXCEPT !.storage[video.id] = Unreadable(kind)])

\* localStorage starts or stops throwing (storage disabled, quota exceeded).
StorageFlips ==
  \E fails \in BOOLEAN :
    /\ fails # storageFails
    /\ Becomes([View EXCEPT !.storageFails = fails])

ArrowRight ==
  /\ mounted
  /\ Becomes(onArrowRight(View))

ArrowLeft ==
  /\ mounted
  /\ Becomes(onArrowLeft(View))

Digits == {0, 5, 9}

Digit ==
  /\ mounted
  /\ \E digit \in Digits : Becomes(onDigit(View, digit))

DoubleClick ==
  /\ mounted
  /\ \E isRight \in BOOLEAN : Becomes(handleDoubleClick(View, isRight))

RewindButton ==
  /\ mounted
  /\ Becomes(onRewindButton(View))

\* On a live stream the position stays within the MaxTime seconds of the model.
ForwardButton ==
  /\ mounted
  /\ elDuration = InfDur => Position(View) + BUTTON_SEEK <= MaxTime
  /\ Becomes(onForwardButton(View))

\* Places on the timeline, in percent of its width.
TimelinePlaces == {0, 50, 100}

TimelineClick ==
  /\ mounted
  /\ \E pct \in TimelinePlaces : Becomes(handleSeek(View, pct))

\* Drags begun and not yet ended by a mouseup (a second button pressed on the
\* timeline, or a release the page did not see).
MaxDrags == 2

BeginDrag ==
  /\ mounted /\ docListeners < MaxDrags
  /\ Becomes(beginDrag(View))

\* A mousemove on document while a drag's listeners are registered: every
\* startDrag runs, each to the same effect.
TimelineDrag ==
  /\ docListeners > 0
  /\ \E pct \in TimelinePlaces : Becomes(startDrag(View, pct))

MouseUp ==
  /\ docListeners > 0
  /\ Becomes(MouseUpDispatched(View, docListeners))

Restart ==
  /\ mounted /\ showResumeOverlay /\ Len(evq) < MaxEvq
  /\ Becomes(onRestart(View))

\* A new session on the content of the last one.
Open ==
  /\ ~mounted /\ CanLoad(View, video)
  /\ Becomes(Reopened(View))

\* The overlays driven by play / pause and the pointer.
NextPlayback ==
  \/ TogglePlay \/ VideoClick \/ MouseMoveDialog \/ MouseMoveContainer
  \/ DispatchMediaEvent \/ LoadedMetadata \/ MediaEnded \/ Tick \/ TimerFire \/ Unmount

\* The volume and language HUDs.
NextHud ==
  \/ KeyM \/ ShowLanguageOverlay \/ Tick \/ TimerFire \/ Unmount

\* The session life cycle: content changes, unmount, the engine and the cue fetch.
\* No timeout callback reads or writes the engine, the fetch or the descriptor,
\* so the clock is left out of this slice.
NextSession ==
  \/ ChangeVideo \/ Unmount \/ HlsError \/ FetchSettles

\* Error reporting within one session.
NextErrors ==
  \/ HlsError \/ ManifestParsed \/ MediaErrorEvent \/ DismissError
  \/ Tick \/ TimerFire \/ Unmount

Next == NextPlayback \/ NextHud \/ NextSession \/ NextErrors

InitAdaptive == Starts(Mounted([id |-> 1, ext |-> "m3u8"]))
\* The first content, from a native or an adaptive source.
InitFirst == \E ext \in Exts : Starts(Mounted([id |-> 1, ext |-> ext]))

Spec == Init /\ [][Next]_vars
SpecPlayback == InitAdaptive /\ [][NextPlayback]_vars
SpecHud == InitAdaptive /\ [][NextHud]_vars
SpecSession == Init /\ [][NextSession]_vars
SpecErrors == Init /\ [][NextErrors]_vars

\* Taps on the video surface and on the control bar, in quick succession.
NextTap ==
  \/ VideoClick \/ ControlTap \/ Wait \/ DispatchMediaEvent \/ Tick \/ TimerFire
SpecTap == InitAdaptive /\ [][NextTap]_vars

\* Audio track selection and the engine's audio signals.
NextAudio ==
  \/ ManifestParsed \/ AudioChange \/ KeyD \/ EngineSwitchesAudio \/ AudioSignal
  \/ Tick \/ TimerFire
SpecAudio == Init /\ [][NextAudio]_vars

\* Quality switching during playback.
NextQuality ==
  \/ QualitySwitch \/ TogglePlay \/ DispatchMediaEvent \/ LoadedMetadata \/ Advance
SpecQuality == Init /\ [][NextQuality]_vars

\* Subtitle selection.
NextSubtitles ==
  \/ SubtitleChange \/ KeyC \/ LoadedMetadata \/ Tick \/ TimerFire
SpecSubtitles == Init /\ [][NextSubtitles]_vars

\* Preferences across sessions.
NextRoundTrip ==
  \/ VolumeChange \/ LoadedMetadata \/ Unmount \/ Open \/ Tick \/ TimerFire
SpecRoundTrip == Init /\ [][NextRoundTrip]_vars

\* Every input that changes a preference.  No handler of this slice reads a
\* timeout or the overlay state, so the clock is left out.
NextPersist ==
  \/ VolumeChange \/ ArrowUp \/ ArrowDown \/ KeyM \/ MuteButton \/ RateChange
  \/ SubtitleChange \/ KeyC
SpecPersist == Init /\ [][NextPersist]_vars

\* The analytics sink starts or stops throwing.
SinkFlips ==
  \E throws \in BOOLEAN :
    /\ throws # sinkThrows
    /\ Becomes([View EXCEPT !.sinkThrows = throws])

\* Handlers that emit analytics events, over a sink that may throw.  The clock
\* is left out: no timeout callback emits an event.
NextSink ==
  \/ SinkFlips \/ SubtitleChange \/ AudioChange \/ ManifestParsed \/ TogglePlay
  \/ DispatchMediaEvent
SpecSink == InitFirst /\ [][NextSink]_vars

\* Sessions opened over what earlier sessions stored.
NextReopen ==
  \/ SubtitleChange \/ LoadedMetadata \/ Unmount \/ Open \/ Tick \/ TimerFire
SpecReopen == InitFirst /\ [][NextReopen]_vars

\* The volume and mute inputs, in sessions opened over what earlier ones stored.
\* The clock is left out: no timeout callback touches the volume or the mute flag.
NextMirror ==
  \/ VolumeChange \/ ArrowUp \/ ArrowDown \/ KeyM \/ MuteButton \/ LoadedMetadata
  \/ Unmount \/ Open
SpecMirror == InitFirst /\ [][NextMirror]_vars

\* An adaptive session whose engine may fail for good, and the commands the
\* player gives the engine.  The clock is left out: no timeout callback
\* reaches the engine.
NextEngine ==
  \/ HlsError \/ ManifestParsed \/ QualitySwitch \/ AudioChange \/ KeyD \/ Unmount
SpecEngine == InitAdaptive /\ [][NextEngine]_vars

\* The menus and the switches made from them or from the keyboard.
NextMenu ==
  \/ ToggleMenu \/ ClickOutside \/ QualitySwitch \/ AudioChange \/ KeyD
  \/ SubtitleChange \/ KeyC \/ ManifestParsed \/ Tick \/ TimerFire
SpecMenu == InitFirst /\ [][NextMenu]_vars

\* Preferences in a storage that already holds the items of earlier sessions
\* on the other contents.
StoredElsewhere(v) ==
  [id \in 1..NumVideos |->
     IF id = v.id THEN MissingItem
     ELSE [kind |-> "object", volume |-> 40, playbackRate |-> 200,
           activeSubtitle |-> "en"]]
InitStored ==
  \E v \in Videos : Starts([Mounted(v) EXCEPT !.storage = StoredElsewhere(v)])
NextMerge ==
  \/ VolumeChange \/ RateChange \/ SubtitleChange \/ StorageDamaged
SpecMerge == InitStored /\ [][NextMerge]_vars

\* Preferences with a storage that fails.
NextFailures ==
  \/ VolumeChange \/ RateChange \/ SubtitleChange
  \/ StorageDamaged \/ StorageFlips \/ Unmount \/ Open
SpecFailures == InitFirst /\ [][NextFailures]_vars

\* The volume slider over a storage that works but may hold a foreign item.
NextVolume ==
  \/ VolumeChange \/ StorageDamaged \/ Unmount \/ Open \/ Tick \/ TimerFire
SpecVolume == Init /\ [][NextVolume]_vars

\* The seek commands.
NextSeek ==
  \/ ArrowRight \/ ArrowLeft \/ Digit \/ DoubleClick \/ RewindButton \/ ForwardButton
  \/ TimelineClick \/ BeginDrag \/ TimelineDrag \/ MouseUp \/ Restart \/ LoadedMetadata
  \/ TogglePlay \/ MediaEnded \/ DispatchMediaEvent
SpecSeek == Init /\ [][NextSeek]_vars

\* The progress bar: timeupdate, seeks on the timeline and changes of content.
NextProgress ==
  \/ TimeUpdate \/ LoadedMetadata \/ TimelineClick \/ ChangeVideo
SpecProgress == InitFirst /\ [][NextProgress]_vars

\* Drag-to-seek from mouse-down to mouse-up, and the end of the session.
NextDrag ==
  \/ BeginDrag \/ TimelineDrag \/ MouseUp \/ LoadedMetadata \/ TogglePlay
  \/ DispatchMediaEvent \/ Unmount
SpecDrag == Init /\ [][NextDrag]_vars

\* ------------------------------------------------------------ claims
\* The kinds of timeout the overlays use.
ClaimedKinds == {"flash", "cursor", "ripple", "vol", "lang", "paused", "mouseMove", "controls"}

\* C1: for every overlay kind at most one timeout is pending at any time; a new
\* trigger cancels the pending timeout of its kind and replaces it.
C1_OnePendingPerKind ==
  \A k \in ClaimedKinds : Cardinality(PendingOf(View, k)) <= 1

\* C2: an overlay is hidden only a full duration after the latest trigger of its
\* kind: no timeout left over from an earlier trigger hides it early.
C2_LatestTriggerWins ==
  [][\A k \in OverlayKinds :
       (OverlayVisible(View, k) /\ ~OverlayVisible(View, k)')
         => sinceShown[k] = Ticks(Duration(k))]_vars

\* C3: once the player has unmounted no timeout is pending, so no timeout
\* callback of the player runs after teardown.
C3_NoTimerAfterUnmount == ~mounted => timers = {}

LiveEngines == {e \in EngineIds : engines[e].status = "live"}

\* C4: at most one engine instance is attached and not destroyed, and it is the
\* one hlsRef refers to: when the load effect creates an instance, the previous
\* one has been destroyed and hlsRef no longer refers to it.
C4_SingleLiveEngine ==
  /\ Cardinality(LiveEngines) <= 1
  /\ \A e \in LiveEngines : hlsRef = e

\* C4 witness: a second instance is attached after the first was destroyed.
C4_Witness ==
  \E e1, e2 \in EngineIds :
    /\ e1 # e2
    /\ engines[e1].status = "destroyed"
    /\ engines[e2].status = "live"
    /\ hlsRef = e2

\* The calls of a teardown come in the order clearTimeout, abort, destroy.
Rank(call) ==
  CASE call = "clearTimeout" -> 1
    [] call = "abort"        -> 2
    [] call = "destroy"      -> 3

InOrder(log) == \A i, j \in 1..Len(log) : i < j => Rank(log[i]) <= Rank(log[j])

\* C5: on unmount and on every change of content identifier the player clears
\* every pending timeout, then aborts the in-flight cue fetch, then destroys the
\* engine, in that order, all before the new session's load.
C5_TeardownClearsAbortsDestroys ==
  [][(mounted /\ (~mounted' \/ video'.id # video.id))
       => /\ timers' = {}
          /\ fetchState' # "inflight"
          /\ \A e \in LiveEngines : engines'[e].status = "destroyed"
          /\ InOrder(teardown')]_vars

\* The step made a startLoad / recoverMediaError call on instance e.
Called(e, cmd) == engines'[e].calls # engines[e].calls /\ engines'[e].lastCmd = cmd
NoCall(e) == engines'[e].calls = engines[e].calls

\* C6 as claimed: a fatal network error destroys the engine, once, and shows the
\* persistent error banner.
C6_FatalNetworkDestroysOnce ==
  [][\A e \in EngineIds :
       HlsErrorStep(e, TRUE, "networkError")
         => /\ engines'[e].status = "destroyed"
            /\ engines'[e].destroyCalls = 1
            /\ BannerVisible(View)']_vars

\* C6 as amended: a fatal network error, after any number of non-fatal errors,
\* makes the handler call startLoad once on the instance and set the retry
\* notice; it does not destroy the instance and shows no banner.
C6_FatalNetworkRetries ==
  [][\A e \in EngineIds :
       HlsErrorStep(e, TRUE, "networkError")
         => /\ Called(e, "startLoad")
            /\ engines'[e].status = "live"
            /\ engines'[e].destroyCalls = 0
            /\ errorMessage' = MsgFatalNetwork
            /\ error' = error]_vars

\* C6 witness: the retry was made while soft notices of earlier non-fatal errors
\* were still pending.
C6_Witness ==
  \E e \in EngineIds :
    /\ engines[e].status = "live"
    /\ engines[e].lastCmd = "startLoad"
    /\ errorMessage = MsgFatalNetwork
    /\ Cardinality(PendingOf(View, "soft")) = MaxStack

\* C7 as claimed: every network-class error triggers startLoad, every media-class
\* error recoverMediaError, and neither destroys the engine.
C7_EveryErrorRecovers ==
  [][\A e \in EngineIds, fatal \in BOOLEAN :
       /\ HlsErrorStep(e, fatal, "networkError")
            => Called(e, "startLoad") /\ engines'[e].status = "live"
       /\ HlsErrorStep(e, fatal, "mediaError")
            => Called(e, "recoverMediaError") /\ engines'[e].status = "live"]_vars

\* C7 as amended: a fatal network-class error triggers startLoad, a fatal
\* media-class error recoverMediaError, a fatal error of any other type destroys
\* the engine; a non-fatal error makes no call on the engine; the engine is never
\* destroyed in response to a network-class or media-class error.
C7_FatalErrorsRecover ==
  [][\A e \in EngineIds :
       /\ HlsErrorStep(e, TRUE, "networkError")
            => Called(e, "startLoad") /\ engines'[e].status = "live"
       /\ HlsErrorStep(e, TRUE, "mediaError")
            => Called(e, "recoverMediaError") /\ engines'[e].status = "live"
       /\ HlsErrorStep(e, TRUE, "otherError")
            => NoCall(e) /\ engines'[e].status = "destroyed"
       /\ \A type \in ErrorTypes :
            HlsErrorStep(e, FALSE, type)
              => NoCall(e) /\ engines'[e].status = "live"]_vars

\* C7 witness: a media recovery was requested and the instance is still attached.
C7_Witness ==
  \E e \in EngineIds :
    /\ engines[e].status = "live"
    /\ engines[e].lastCmd = "recoverMediaError"
    /\ errorMessage = MsgFatalMedia

\* C8: an unrecoverable streaming error (fatal, neither network nor media class)
\* puts the persistent error banner on screen.
C8_UnrecoverableShowsBanner ==
  [][\A e \in EngineIds :
       HlsErrorStep(e, TRUE, "otherError") => BannerVisible(View)']_vars

\* C9: the element's error event sets the persistent banner and turns the
\* loading indicator off, in a native and in an adaptive session alike.
C9_ElementErrorShowsBanner ==
  [][MediaErrorEvent => (BannerVisible(View)' /\ ~loading')]_vars

\* The element is paused and its pause event has reached the listeners.
PauseProcessed ==
  mounted /\ elPaused /\ \A i \in 1..Len(evq) : evq[i] # "pause"

\* The hide timer of showControlsTemporarily is due and its callback runs.
ControlsTimerStep ==
  \E t \in timers :
    /\ t.kind = "controls" /\ t.left = 0
    /\ Becomes(controlsTimeoutFired([View EXCEPT !.timers = @ \ {t}]))

C11_PausedInfoSuppressedWhilePlaying ==
  (mounted /\ isPlaying)
    => /\ ~showPausedInfo /\ ~dimVideo
       /\ PendingOf(View, "paused") = {}
       /\ PendingOf(View, "mouseMove") = {}

\* C12: a dispatched pause event leaves exactly one 10-second paused-info timer
\* pending; mouse motion over the dialog and a dispatched play event each cancel
\* it, so it cannot fire after either of them.
C12_RevealCancelledByMotionOrPlay ==
  [][/\ (DispatchMediaEvent /\ Head(evq) = "pause")
          => Cardinality(PendingOf(View, "paused")') = 1
     /\ (DispatchMediaEvent /\ Head(evq) = "play")
          => PendingOf(View, "paused")' = {}
     /\ MouseMoveDialog => PendingOf(View, "paused")' = {}]_vars

\* C13: handleQualitySwitch(idx) leaves selectedQualityIndex = idx.  With an
\* engine it sets the engine's level and leaves the element's source, position
\* and play state alone.  Without one, a switch to a different URL swaps the
\* source and keeps the position and the play state, and the position is still
\* the same once the metadata of the new source has loaded.
C13_QualitySwitchKeepsPosition ==
  [][/\ \A idx \in {-1} \cup QualityIndexes :
          QualitySwitchStep(idx)
            => /\ selectedQualityIndex' = idx
               /\ hlsRef # 0
                    => /\ engines'[hlsRef].currentLevel = idx
                       /\ elSrc' = elSrc /\ elPaused' = elPaused
                       /\ Position(View)' = Position(View)
               /\ (hlsRef = 0 /\ idx \in QualityIndexes /\ QualityUrl(idx) # elSrc)
                    => /\ elSrc' = QualityUrl(idx)
                       /\ elPaused' = elPaused
                       /\ Position(View)' = Position(View)
     /\ LoadedMetadata => (elReady' /\ elTime' = Position(View))]_vars

\* C13 witness: a native source was swapped during playback at a position past
\* 0; the element plays the new URL and the position is carried over.
C13_Witness ==
  /\ mounted /\ hlsRef = 0 /\ elSrc # 0 /\ selectedQualityIndex = elSrc - 1
  /\ ~elPaused /\ ~elReady /\ elStartPos > 0

\* The track the engine is playing, as the selection should name it.
EngineSelection ==
  IF hlsRef # 0 /\ engines[hlsRef].audioTrack \in audioTracks
    THEN engines[hlsRef].audioTrack
    ELSE DefaultTrack

\* C14: after an audio command or an engine signal, once no signal is waiting,
\* selectedAudioTrack is the engine's current track when that track is in the
\* catalog and "default" otherwise; with no engine it stays "default".
C14_SelectionFollowsEngine ==
  [][((AudioChange \/ KeyD \/ AudioSignal) /\ audioSignals' = 0)
       => selectedAudioTrack' = EngineSelection']_vars

Showing(modes) == {i \in DOMAIN modes : modes[i] = "showing"}

\* C15: handleSubtitleChange(lang) leaves the tracks of language lang showing and
\* every other track hidden, with at most one track showing; with lang = null
\* every track is hidden; and a second call with the same language changes
\* neither the track modes, nor activeSubtitle, nor the persisted item.
C15_SubtitleSwitchSingleAndIdempotent ==
  [][\A lang \in SubtitleChoices(video) :
       SubtitleChangeStep(lang)
         => /\ activeSubtitle' = lang
            /\ \A i \in DOMAIN trackModes :
                 trackModes'[i] =
                   IF lang # NULL /\ SubtitleTracks(video)[i].lang = lang
                     THEN "showing" ELSE "hidden"
            /\ Cardinality(Showing(trackModes')) <= 1
            /\ lang = NULL => Showing(trackModes') = {}
            /\ LET twice == handleSubtitleChange(View', lang)
               IN  /\ twice.trackModes = trackModes'
                   /\ twice.activeSubtitle = activeSubtitle'
                   /\ twice.storage = storage']_vars

\* The volume of the persisted item of the current content, NoNumber if none is readable.
StoredVolume ==
  IF storage[video.id].kind = "object" THEN storage[video.id].volume ELSE NoNumber

\* C16: a session opened on a content for which handleVolumeChange(x) has stored
\* a volume starts with volume state x, and has x on the element once the
\* metadata has loaded, for a native source and for an adaptive one.
C16_VolumeRoundTrip ==
  [][(Open /\ StoredVolume \in 0..100)
       => /\ volume' = StoredVolume
          /\ Loaded(View').elVolume = StoredVolume]_vars

StoredRate ==
  IF storage[video.id].kind = "object" THEN storage[video.id].playbackRate ELSE NoNumber
StoredSubtitle ==
  IF storage[video.id].kind = "object" THEN storage[video.id].activeSubtitle ELSE NoChoice

\* A step of one of the user's preference inputs.
PreferenceInput ==
  \/ VolumeChange \/ ArrowUp \/ ArrowDown \/ KeyM \/ MuteButton \/ RateChange
  \/ SubtitleChange \/ KeyC

\* C17: whichever input changes the volume, the playback rate or the subtitle
\* language, the new value is in the persisted item of the current content
\* when the handler returns.
C17_EveryChangePersisted ==
  [][PreferenceInput
       => /\ (volume' # volume \/ elVolume' # elVolume) => StoredVolume' = volume'
          /\ (playbackRate' # playbackRate) => StoredRate' = playbackRate'
          /\ (activeSubtitle' # activeSubtitle) => StoredSubtitle' = activeSubtitle']_vars

\* getItem, JSON.parse or a field read fails for the item of the current content.
ItemUnreadable ==
  storageFails \/ storage[video.id].kind \in UnreadableKinds \cup {"missing"}

\* C18: no handler lets a storage failure escape; a session created over an
\* unreadable item, or an item without a field, starts from the defaults; and
\* handleVolumeChange, handlePlaybackRateChange and handleSubtitleChange set the
\* state and the element to the requested value whatever the storage does.
C18_StorageFailuresContained ==
  /\ ~uncaught
  /\ mounted =>
       /\ \A val \in VolumeInputs :
            LET t == handleVolumeChange(View, val)
            IN  /\ ~t.uncaught
                /\ t.volume = clamp(val, 0, 100) /\ t.elVolume = clamp(val, 0, 100)
       /\ \A r \in RateChoices :
            LET t == handlePlaybackRateChange(View, r)
            IN  ~t.uncaught /\ t.playbackRate = r /\ t.elRate = r
       /\ \A lang \in SubtitleChoices(video) :
            LET t == handleSubtitleChange(View, lang)
            IN  /\ ~t.uncaught /\ t.activeSubtitle = lang
                /\ \A i \in DOMAIN trackModes :
                     t.trackModes[i] = "showing" <=> SubtitleTracks(video)[i].lang = lang
  /\ (~mounted /\ CanLoad(View, video)) =>
       LET t == Reopened(View)
       IN  /\ ~t.uncaught
           /\ (ItemUnreadable \/ StoredVolume = NoNumber) => t.volume = 100
           /\ (ItemUnreadable \/ StoredRate = NoNumber) => t.playbackRate = 100
           /\ (ItemUnreadable \/ StoredSubtitle = NoChoice) => t.activeSubtitle = NULL
           /\ t.elVolume = 100 /\ t.elRate = 100

\* handleVolumeChange(0.4) has run while the write failed: the state and the
\* element hold 40 and no item exists.
C18_Witness ==
  /\ mounted /\ ~uncaught /\ storageFails
  /\ storage[video.id].kind = "missing"
  /\ volume = 40 /\ elVolume = 40

\* C19: handleVolumeChange(v) leaves the volume state, the element's volume and
\* the persisted volume equal to clamp(v, 0, 1), and the muted state and the
\* element's muted flag true exactly when that volume is 0.
C19_VolumeClampedEverywhere ==
  [][\A val \in VolumeInputs :
       VolumeChangeStep(val)
         => /\ volume' = clamp(val, 0, 100)
            /\ elVolume' = clamp(val, 0, 100)
            /\ StoredVolume' = clamp(val, 0, 100)
            /\ isMuted' = (clamp(val, 0, 100) = 0)
            /\ elMuted' = (clamp(val, 0, 100) = 0)]_vars

\* C20: every assignment a seek command makes to v.currentTime is made while
\* v.duration is known (finite and not 0) and is of a position in [0, duration].
C20_SeeksWithinKnownDuration ==
  [][(\/ ArrowRight \/ ArrowLeft \/ Digit \/ DoubleClick \/ RewindButton \/ ForwardButton
      \/ TimelineClick \/ TimelineDrag \/ Restart)
       => (seekLog' # seekLog
             => /\ DurationKnown(seekLog'.dur)
                /\ seekLog'.pos >= 0 /\ seekLog'.pos <= seekLog'.dur)]_vars


\* C21: a tap on the video surface less than TAP_THRESHOLD ms after the previous
\* tap that toggled playback does not toggle it: the element's paused state stays
\* as it was and no play or pause event is queued.
C21_RapidTapsToggleOnce ==
  [][(VideoClick /\ sinceTap < TAP_THRESHOLD)
       => (elPaused' = elPaused /\ evq' = evq)]_vars

\* C22: the document-level listeners of drag-to-seek exist only during a drag:
\* a mouse-up removes every pair, however many beginDrag added, and none is
\* registered once the player has unmounted.
C22_DragListenersOnlyWhileDragging ==
  /\ [][MouseUp => docListeners' = 0]_vars
  /\ [](~mounted => docListeners = 0)

\* C23: after a change of content identifier no cue-file fetch of the old content
\* is in flight, and the cue list of the session never comes from the cue file
\* of another content.
C23_CueFetchFollowsContent ==
  mounted => /\ (fetchState = "inflight" => fetchFor = video.id)
             /\ (vttCues # 0 => vttCues = video.id)

\* The percentage the progress bar should show for the element's position.
ProgressOf(s) == clamp((s.elTime * 100) \div s.elDuration, 0, 100)

\* C24: progressPercent is always within [0, 100]; once the element has fired
\* the timeupdate events it owes and the duration is known, progressPercent
\* equals clamp(currentTime / duration * 100, 0, 100); a timeupdate received while
\* the duration is 0, NaN or infinite leaves progressPercent unchanged.
C24_ProgressTracksPosition ==
  /\ [](progressPercent >= 0 /\ progressPercent <= 100)
  /\ []((mounted /\ ~tuOwed /\ DurationKnown(elDuration))
          => progressPercent = ProgressOf(View))
  /\ [][(TimeUpdate /\ ~DurationKnown(elDuration))
          => progressPercent' = progressPercent]_vars

\* C25: a soft notice of a non-fatal network-class or media-class error is on
\* screen only while a soft-notice timeout is still pending, so it is gone at
\* most SOFT_NOTICE_MS after the last such error, with no user action.
C25_SoftNoticesExpire ==
  (mounted /\ errorMessage \in {MsgSoftNetwork, MsgSoftMedia})
    => PendingOf(View, "soft") # {}

\* The quiet period of the last mouse movement is still running.
QuietPeriodRunning == \E t \in PendingOf(View, "mouseMove") : t.left > 0

\* C26: while paused, a mouse movement hides the paused-info overlay and the dim
\* at once and leaves exactly one quiet timer pending, set to its full period;
\* and the overlay is never on screen while that period is still running,
\* whatever other timer fires.
C26_OverlayWaitsForQuiet ==
  /\ [][((MouseMoveDialog \/ MouseMoveContainer) /\ elPaused)
          => /\ ~showPausedInfo' /\ ~dimVideo'
             /\ Cardinality(PendingOf(View, "mouseMove")') = 1
             /\ \A t \in PendingOf(View, "mouseMove")' :
                  t.left = Ticks(MOUSE_QUIET_MS)]_vars
  /\ []((mounted /\ elPaused /\ QuietPeriodRunning) => ~showPausedInfo)

\* The fields of a persisted item.
ItemFields == {"volume", "playbackRate", "activeSubtitle"}

\* Storage r differs from the present one at most in one field of the item of
\* the current content.
OnlyFieldWritten(r, field) ==
  /\ \A id \in 1..NumVideos : id # video.id => r[id] = storage[id]
  /\ \A f \in ItemFields \ {field} : r[video.id][f] = storage[video.id][f]

\* C27: handleVolumeChange, handlePlaybackRateChange and handleSubtitleChange
\* each leave the persisted items of the other contents as they were, and in the
\* item of the current content change no field but their own.
C27_WritesMergeOwnKey ==
  mounted =>
    /\ \A val \in VolumeInputs :
         OnlyFieldWritten(handleVolumeChange(View, val).storage, "volume")
    /\ \A r \in RateChoices :
         OnlyFieldWritten(handlePlaybackRateChange(View, r).storage, "playbackRate")
    /\ \A lang \in SubtitleChoices(video) :
         OnlyFieldWritten(handleSubtitleChange(View, lang).storage, "activeSubtitle")

\* Another content has an item, the item of the current content holds a rate
\* and a subtitle choice, and a volume change writes a third field into it.
C27_Witness ==
  /\ mounted
  /\ \E id \in 1..NumVideos : id # video.id /\ storage[id].kind = "object"
  /\ storage[video.id].kind = "object"
  /\ storage[video.id].playbackRate # NoNumber
  /\ storage[video.id].activeSubtitle # NoChoice
  /\ \E val \in VolumeInputs :
       handleVolumeChange(View, val).storage[video.id].volume # storage[video.id].volume

\* C28: ArrowUp leaves the element's volume and the volume state at
\* min(1, v.volume + 0.05) and both muted flags false; ArrowDown leaves them at
\* max(0, v.volume - 0.05), sets both muted flags when that is 0 and leaves them
\* as they were otherwise; and the volume is within [0, 1] in every state.
C28_KeyboardVolumeSteps ==
  /\ volume >= 0 /\ volume <= 100 /\ elVolume >= 0 /\ elVolume <= 100
  /\ mounted =>
       LET up == onArrowUp(View)
           down == onArrowDown(View)
       IN  /\ up.elVolume = Min(100, elVolume + 5) /\ up.volume = up.elVolume
           /\ ~up.elMuted /\ ~up.isMuted
           /\ down.elVolume = Max(0, elVolume - 5) /\ down.volume = down.elVolume
           /\ down.elVolume = 0 => (down.elMuted /\ down.isMuted)
           /\ down.elVolume # 0 => (down.elMuted = elMuted /\ down.isMuted = isMuted)

\* ArrowDown has brought a muted element to the last step above 0: the next
\* ArrowDown reaches 0 and ArrowUp unmutes.
C28_Witness ==
  /\ mounted /\ elVolume = 5 /\ volume = 5 /\ elMuted /\ isMuted
  /\ onArrowDown(View).elVolume = 0 /\ onArrowDown(View).elMuted
  /\ onArrowUp(View).elVolume = 10 /\ ~onArrowUp(View).elMuted

\* C29: every manifest-parse event leaves the audio catalog with the
\* "Auto / Default" entry first, followed by the engine's tracks when it
\* advertises more than one and by the descriptor's tracks otherwise, also when
\* reading the levels or the tracks failed; the selection is "default" and the
\* quality is auto (-1).
C29_CatalogStartsWithDefault ==
  [][ManifestParsed
       => /\ audioSentinel'
          /\ audioTracks' = (IF Cardinality(EngineAudioTracks(video)) > 1
                               THEN EngineAudioTracks(video)
                               ELSE MetaAudioTracks(video))
          /\ selectedAudioTrack' = DefaultTrack
          /\ selectedQualityIndex' = -1]_vars

\* C30: handling the ended event leaves isPlaying false, the resume / restart
\* overlay shown and, autoplay-next being enabled, the up-next prompt on screen;
\* and no media event, timeout or playback control changes the media source or
\* the content.
C30_EndedPromptsAndStays ==
  /\ [][(DispatchMediaEvent /\ Head(evq) = "ended")
          => (~isPlaying' /\ showResumeOverlay' /\ UpNextRendered(View'))]_vars
  /\ [][elSrc' = elSrc /\ video' = video]_vars

\* The analytics events a handler run from the present state added, r being its result.
Emitted(r) == SubSeq(r.emitted, Len(emitted) + 1, Len(r.emitted))

\* r, the result of a handler run from the present state, has scheduled a close
\* of the menu and started the fade.
ClosesMenu(r) == r.isMenuFading /\ PendingOf(r, "menu") \ timers # {}

\* A switch handler can run: the timeouts it sets are within the bounds.
SwitchCanRun ==
  /\ mounted /\ ~sinkThrows
  /\ Cardinality(PendingOf(View, "lang")) < MaxStack
  /\ Cardinality(PendingOf(View, "menu")) < MaxStack

\* C31: every quality, audio and subtitle switch, from the menu or from the
\* keyboard, with or without an engine, schedules the close of the menu and
\* hands exactly one event of its kind to logAnalytics.
C31_SwitchClosesMenuAndLogsOnce ==
  SwitchCanRun =>
    /\ \A idx \in {-1} \cup QualityIndexes :
         LET r == handleQualitySwitch(View, idx)
         IN  Emitted(r) = <<"quality_change">> /\ ClosesMenu(r)
    /\ \A trackId \in {DefaultTrack} \cup audioTracks :
         LET r == handleAudioChange(View, trackId)
         IN  Emitted(r) = <<"audio_change">> /\ ClosesMenu(r)
    /\ audioTracks # {} =>
         LET r == onKeyD(View)
         IN  Emitted(r) = <<"audio_change">> /\ ClosesMenu(r)
    /\ \A lang \in SubtitleChoices(video) :
         LET r == handleSubtitleChange(View, lang)
         IN  Emitted(r) = <<"subtitle_toggle">> /\ ClosesMenu(r)
    /\ LET r == onKeyC(View)
       IN  Emitted(r) = <<"subtitle_toggle">> /\ ClosesMenu(r)

\* The present state with a sink that does not throw.
SinkWorks == [View EXCEPT !.sinkThrows = FALSE]

\* Result r of a handler is what the handler leaves over a working sink.
SameAsOver(r, ok) == [r EXCEPT !.sinkThrows = FALSE] = ok

\* C32: no exception of the analytics sink leaves a handler, and a handler that
\* emits an event over a throwing sink leaves every part of the state as it
\* does over a working one (language HUD, menu close and timers included).
C32_AnalyticsFireAndForget ==
  /\ ~uncaught
  /\ (/\ mounted
      /\ Cardinality(PendingOf(View, "lang")) < MaxStack
      /\ Cardinality(PendingOf(View, "menu")) < MaxStack)
     => /\ \A lang \in SubtitleChoices(video) :
             SameAsOver(handleSubtitleChange(View, lang),
                        handleSubtitleChange(SinkWorks, lang))
        /\ \A idx \in {-1} \cup QualityIndexes :
             SameAsOver(handleQualitySwitch(View, idx),
                        handleQualitySwitch(SinkWorks, idx))
        /\ \A trackId \in {DefaultTrack} \cup audioTracks :
             SameAsOver(handleAudioChange(View, trackId),
                        handleAudioChange(SinkWorks, trackId))
        /\ SameAsOver(onPlay(View), onPlay(SinkWorks))
        /\ SameAsOver(onPause(View), onPause(SinkWorks))
        /\ SameAsOver(onTime(View, TRUE), onTime(SinkWorks, TRUE))

\* The session, a native one, is as its creation left it: no handler has run
\* since the first render and its effects.
JustCreated == mounted /\ loadListeners /\ View = Reopened(View)

\* C33: in a session nothing has touched since its creation, the loadedmetadata
\* event leaves the stored record as it is, and a subtitle language stored in
\* it is the active subtitle once the event is handled.
C33_CreationOnlyReads ==
  (/\ JustCreated /\ ~elReady
   /\ Cardinality(PendingOf(View, "lang")) < MaxStack
   /\ Cardinality(PendingOf(View, "menu")) < MaxStack)
  => LET r == Loaded(View)
     IN  /\ r.storage = storage
         /\ StoredSubtitle \notin {NoChoice, NULL}
              => r.activeSubtitle = StoredSubtitle

\* In r the volume and mute state are those of the element.
Mirrors(r) == r.volume = r.elVolume /\ r.isMuted = r.elMuted

\* C34: whatever volume or mute operation is handled next in a session, the
\* volume state then equals the element's volume and isMuted its muted flag.
C34_VolumeStateMirrorsElement ==
  mounted =>
    /\ \A val \in VolumeInputs : Mirrors(handleVolumeChange(View, val))
    /\ Mirrors(onArrowUp(View))
    /\ Mirrors(onArrowDown(View))
    /\ Mirrors(onKeyM(View))
    /\ Mirrors(onMuteButton(View))
    /\ (~elReady /\ Cardinality(PendingOf(View, "lang")) < MaxStack
                 /\ Cardinality(PendingOf(View, "menu")) < MaxStack)
         => Mirrors(Loaded(View))

\* C35: an engine instance that was destroyed has been given no command since:
\* no level or audio track was set on it and destroy() was not called again.
C35_DestroyedEngineLeftAlone ==
  \A e \in EngineIds :
    engines[e].status = "destroyed"
      => engines[e].late = "none" /\ engines[e].destroyCalls = 1

\* C36: when the user opens a menu, no close that an earlier closeMenu call has
\* scheduled and that is still pending closes it: the callback of such a
\* timeout leaves the menu just opened as it is.
C36_LateCloseSparesNewMenu ==
  mounted =>
    \A m \in Menus :
      LET r == toggleMenu(View, m)
      IN  (r.openMenu # NULL /\ PendingOf(r, "menu") # {})
            => menuCloseFired(r).openMenu = r.openMenu

\* C37: the resume / restart overlay is never shown while isPlaying is true.
C37_NoResumeOverlayWhilePlaying ==
  (mounted /\ isPlaying) => ~showResumeOverlay

====
